---- MODULE Spec2Model ----
(***************************************************************************)
(* Model of the software_dev_agents package: ProjectMemory, the Task and   *)
(* BugReport records, the ProjectManager / Coder / QA agents and the       *)
(* SoftwareDevTeam development loop.                                       *)
(*                                                                         *)
(* Python objects are held by reference; a task is identified by its id    *)
(* and its record lives in `tasks`, the model of ProjectMemory.tasks (a    *)
(* dict, which keeps key insertion order).  uuid4 ids are modelled as the  *)
(* next unused natural number.  Timestamps are left out.                   *)
(***************************************************************************)
EXTENDS Naturals, Integers, Sequences, FiniteSets, TLC

VARIABLES
    tasks,              \* ProjectMemory.tasks: sequence of Task records, dict order
    bug_reports,        \* ProjectMemory.bug_reports: sequence of BugReport records
    project_files,      \* ProjectMemory.project_files: filename -> content
    communication_log,  \* ProjectMemory.communication_log
    pc,                 \* position of the orchestrator (develop_project)
    iteration,          \* _execute_development_loop: iteration
    current_task,       \* _execute_development_loop: current_task (id, None = 0)
    success,            \* _execute_coder_task: success
    test_results,       \* results of the last run_tests call
    op,                 \* name of the last operation performed
    ret_task,           \* value returned by the last assign_next_task (id, None = 0)
    ret_list,           \* value returned by the last get_pending_tasks (ids)
    bugs_before,        \* number of bug reports when the current dispatch began
    faulted,            \* whether save_project_file raised in the last implement_task
    loop_calls          \* history: assign_next_task calls and dispatches of the loop

vars == <<tasks, bug_reports, project_files, communication_log, pc, iteration,
          current_task, success, test_results, op, ret_task, ret_list, bugs_before,
          faulted, loop_calls>>

-----------------------------------------------------------------------------
(* Bounds of the model *)

MaxTasks == 2
MaxLog == 1
MaxBugs == 1

(* Program constants *)

max_iterations == 10

\* Python None, for an Optional[Task] held as a task id (ids start at 1)
None == 0

-----------------------------------------------------------------------------
(* Strings.  Python strings are modelled as sequences of characters so     *)
(* that `x in s`, str.lower and str.replace are computed, not assumed.     *)

Range(s) == {s[i] : i \in 1..Len(s)}

\* Python: needle in hay   (substring test)
Contains(hay, needle) ==
    \E k \in 0..(Len(hay) - Len(needle)) :
        \A j \in 1..Len(needle) : hay[k + j] = needle[j]

\* The characters of a string constant of the program
Chars(str) ==
    CASE str = "Setup project structure" ->
            <<"S","e","t","u","p"," ","p","r","o","j","e","c","t"," ","s","t","r","u","c","t","u","r","e">>
      [] str = "Implement HTML structure" ->
            <<"I","m","p","l","e","m","e","n","t"," ","H","T","M","L"," ","s","t","r","u","c","t","u","r","e">>
      [] str = "Implement CSS styling" ->
            <<"I","m","p","l","e","m","e","n","t"," ","C","S","S"," ","s","t","y","l","i","n","g">>
      [] str = "Implement JavaScript functionality" ->
            <<"I","m","p","l","e","m","e","n","t"," ","J","a","v","a","S","c","r","i","p","t"," ","f","u","n","c","t","i","o","n","a","l","i","t","y">>
      [] str = "Write unit tests" ->
            <<"W","r","i","t","e"," ","u","n","i","t"," ","t","e","s","t","s">>
      [] str = "CSS styling for HTML" ->
            <<"C","S","S"," ","s","t","y","l","i","n","g"," ","f","o","r"," ","H","T","M","L">>
      [] str = "HTML structure" ->
            <<"H","T","M","L"," ","s","t","r","u","c","t","u","r","e">>
      [] str = "CSS styling" ->
            <<"C","S","S"," ","s","t","y","l","i","n","g">>
      [] str = "JavaScript functionality" ->
            <<"J","a","v","a","S","c","r","i","p","t"," ","f","u","n","c","t","i","o","n","a","l","i","t","y">>
      [] str = "project structure" ->
            <<"p","r","o","j","e","c","t"," ","s","t","r","u","c","t","u","r","e">>
      [] str = "HTML" ->
            <<"H","T","M","L">>
      [] str = "CSS" ->
            <<"C","S","S">>
      [] str = "JavaScript" ->
            <<"J","a","v","a","S","c","r","i","p","t">>
      [] str = "todoInput" ->
            <<"t","o","d","o","I","n","p","u","t">>
      [] str = "addBtn" ->
            <<"a","d","d","B","t","n">>
      [] str = "todoList" ->
            <<"t","o","d","o","L","i","s","t">>
      [] str = "totalTasks" ->
            <<"t","o","t","a","l","T","a","s","k","s">>
      [] str = "completedTasks" ->
            <<"c","o","m","p","l","e","t","e","d","T","a","s","k","s">>
      [] str = ".container" ->
            <<".","c","o","n","t","a","i","n","e","r">>
      [] str = ".todo-item" ->
            <<".","t","o","d","o","-","i","t","e","m">>
      [] str = ".input-section" ->
            <<".","i","n","p","u","t","-","s","e","c","t","i","o","n">>
      [] str = ".stats" ->
            <<".","s","t","a","t","s">>
      [] str = "class TodoApp" ->
            <<"c","l","a","s","s"," ","T","o","d","o","A","p","p">>
      [] str = "addTodo" ->
            <<"a","d","d","T","o","d","o">>
      [] str = "toggleTodo" ->
            <<"t","o","g","g","l","e","T","o","d","o">>
      [] str = "deleteTodo" ->
            <<"d","e","l","e","t","e","T","o","d","o">>
      [] str = "updateStats" ->
            <<"u","p","d","a","t","e","S","t","a","t","s">>
      [] str = "readme_exists" ->
            <<"r","e","a","d","m","e","_","e","x","i","s","t","s">>
      [] str = "html_file_exists" ->
            <<"h","t","m","l","_","f","i","l","e","_","e","x","i","s","t","s">>
      [] str = "css_file_exists" ->
            <<"c","s","s","_","f","i","l","e","_","e","x","i","s","t","s">>
      [] str = "js_file_exists" ->
            <<"j","s","_","f","i","l","e","_","e","x","i","s","t","s">>
      [] str = "integration_all_files" ->
            <<"i","n","t","e","g","r","a","t","i","o","n","_","a","l","l","_","f","i","l","e","s">>
      [] str = "integration_css_link" ->
            <<"i","n","t","e","g","r","a","t","i","o","n","_","c","s","s","_","l","i","n","k">>
      [] str = "integration_js_link" ->
            <<"i","n","t","e","g","r","a","t","i","o","n","_","j","s","_","l","i","n","k">>
      [] str = "html_" ->
            <<"h","t","m","l","_">>
      [] str = "_exists" ->
            <<"_","e","x","i","s","t","s">>
      [] str = "css_" ->
            <<"c","s","s","_">>
      [] str = "_style" ->
            <<"_","s","t","y","l","e">>
      [] str = "js_" ->
            <<"j","s","_">>
      [] str = "file_exists" ->
            <<"f","i","l","e","_","e","x","i","s","t","s">>
      [] str = "add" ->
            <<"a","d","d">>
      [] str = "delete" ->
            <<"d","e","l","e","t","e">>
      [] str = "toggle" ->
            <<"t","o","g","g","l","e">>
      [] str = "css" ->
            <<"c","s","s">>

\* Python: s.replace(old, new) for a one-character old; new is a string
RECURSIVE Replace(_, _, _)
Replace(s, old, new) ==
    IF s = <<>> THEN <<>>
    ELSE (IF Head(s) = old THEN new ELSE <<Head(s)>>) \o Replace(Tail(s), old, new)

\* Python: c.lower() for one character
LowerChar(c) ==
    CASE c = "A" -> "a" [] c = "B" -> "b" [] c = "C" -> "c" [] c = "D" -> "d"
      [] c = "E" -> "e" [] c = "F" -> "f" [] c = "G" -> "g" [] c = "H" -> "h"
      [] c = "I" -> "i" [] c = "J" -> "j" [] c = "K" -> "k" [] c = "L" -> "l"
      [] c = "M" -> "m" [] c = "N" -> "n" [] c = "O" -> "o" [] c = "P" -> "p"
      [] c = "Q" -> "q" [] c = "R" -> "r" [] c = "S" -> "s" [] c = "T" -> "t"
      [] c = "U" -> "u" [] c = "V" -> "v" [] c = "W" -> "w" [] c = "X" -> "x"
      [] c = "Y" -> "y" [] c = "Z" -> "z" [] OTHER -> c

\* Python: s.lower()
Lower(s) == [i \in 1..Len(s) |-> LowerChar(s[i])]

\* Python: keyword in task.title
TitleContains(title, keyword) == Contains(Chars(title), Chars(keyword))

-----------------------------------------------------------------------------
(* models/enums.py *)

TaskStatus == {"pending", "in_progress", "completed", "failed", "blocked"}
AgentRole == {"project_manager", "coder", "qa_tester"}


-----------------------------------------------------------------------------
(* models/task.py *)

\* Task(...) as the dataclass constructor builds it
Task(id, title, assigned_to, status, priority, dependencies) ==
    [id |-> id, title |-> title, assigned_to |-> assigned_to, status |-> status,
     priority |-> priority, dependencies |-> dependencies,
     completion_notes |-> "None", notes_count |-> 0]

mark_in_progress(task) == [task EXCEPT !.status = "in_progress"]

\* mark_completed without the status
mark_completed_notes_only(task, notes) ==
    [task EXCEPT !.completion_notes = notes, !.notes_count = 0]

mark_completed(task, notes) ==
    [task EXCEPT !.status = "completed", !.completion_notes = notes, !.notes_count = 0]

mark_failed_status_kept(task, error_message) ==
    [task EXCEPT !.completion_notes = error_message, !.notes_count = 0]

mark_failed(task, error_message) ==
    [task EXCEPT !.status = "failed", !.completion_notes = error_message,
                 !.notes_count = 0]

is_ready_to_start_any(task, completed_tasks) ==
    \E dep_id \in task.dependencies : dep_id \in Range(completed_tasks)

\* all(dep_id in completed_tasks for dep_id in self.dependencies)
is_ready_to_start(task, completed_tasks) ==
    \A dep_id \in task.dependencies : dep_id \in Range(completed_tasks)

-----------------------------------------------------------------------------
(* memory/project_memory.py, on the task dict `ts` *)

HasTask(ts, task_id) == \E i \in 1..Len(ts) : ts[i].id = task_id

IndexOf(ts, task_id) == CHOOSE i \in 1..Len(ts) : ts[i].id = task_id

\* self.tasks[task_id], a reference to the one record held under that id
TaskOf(ts, task_id) == ts[IndexOf(ts, task_id)]

\* the effect on the dict of mutating the object held under task.id
Store(ts, task) == [ts EXCEPT ![IndexOf(ts, task.id)] = task]

\* self.tasks[task.id] = task: a new key goes last, an old key keeps its place
add_task(ts, task) ==
    IF HasTask(ts, task.id) THEN Store(ts, task) ELSE Append(ts, task)

get_task(ts, task_id) == IF HasTask(ts, task_id) THEN task_id ELSE None

get_tasks_by_status(ts, status) == SelectSeq(ts, LAMBDA t : t.status = status)

\* sorted(seq, key=lambda x: x.priority): Python's sort is stable; one
\* insertion step puts x after every element whose key is <= x's key
InsertUnstable(sorted, x) ==
    LET n == Cardinality({i \in 1..Len(sorted) : sorted[i].priority < x.priority})
    IN  SubSeq(sorted, 1, n) \o <<x>> \o SubSeq(sorted, n + 1, Len(sorted))

InsertByPriority(sorted, x) ==
    LET n == Cardinality({i \in 1..Len(sorted) : sorted[i].priority <= x.priority})
    IN  SubSeq(sorted, 1, n) \o <<x>> \o SubSeq(sorted, n + 1, Len(sorted))

\* the first n elements of seq, sorted by insertion; the sorted front is
\* bound as a value, so that it is computed once
RECURSIVE SortedPrefix(_, _)
SortedPrefix(seq, n) ==
    IF n = 0 THEN <<>>
    ELSE CHOOSE result \in {InsertByPriority(front, seq[n]) :
                                front \in {SortedPrefix(seq, n - 1)}} : TRUE

SortedByPriority(seq) == SortedPrefix(seq, Len(seq))

get_pending_tasks_unfiltered(ts) == SortedByPriority(ts)

get_pending_tasks(ts) == SortedByPriority(get_tasks_by_status(ts, "pending"))

get_completed_task_ids(ts) ==
    LET done == get_tasks_by_status(ts, "completed")
    IN  [i \in 1..Len(done) |-> done[i].id]

update_task_status_notes_only(ts, task_id, status, notes, count) ==
    IF HasTask(ts, task_id) /\ notes # ""
    THEN Store(ts, [TaskOf(ts, task_id) EXCEPT !.completion_notes = notes,
                                               !.notes_count = count])
    ELSE ts

\* notes == "" is falsy: the notes are then left as they are
update_task_status(ts, task_id, status, notes, count) ==
    IF HasTask(ts, task_id)
    THEN LET task == TaskOf(ts, task_id)
             t1 == [task EXCEPT !.status = status]
             t2 == IF notes # ""
                   THEN [t1 EXCEPT !.completion_notes = notes, !.notes_count = count]
                   ELSE t1
         IN  Store(ts, t2)
    ELSE ts

\* one entry of communication_log (the timestamp is left out); the message
\* text is its fixed wording `kind`, the string `subject` and the numbers a, b
\* that the f-string puts into it
Message(from_agent, to_agent, kind, subject, a, b) ==
    [from |-> from_agent, to |-> to_agent, kind |-> kind, subject |-> subject,
     a |-> a, b |-> b]

log_communication_at_front(log, from_agent, to_agent, kind, subject, a, b) ==
    <<Message(from_agent, to_agent, kind, subject, a, b)>> \o log

\* self.communication_log.append({...})
log_communication(log, from_agent, to_agent, kind, subject, a, b) ==
    Append(log, Message(from_agent, to_agent, kind, subject, a, b))

Ids(seq) == [i \in 1..Len(seq) |-> seq[i].id]
-----------------------------------------------------------------------------
(* agents/project_manager.py *)

PickLast(ready_tasks) == ready_tasks[Len(ready_tasks)]

\* next_task = ready_tasks[0]
PickNext(ready_tasks) == ready_tasks[1]

\* ready_tasks of assign_next_task, for the task dict ts
ReadyTasks(ts) ==
    LET pending_tasks == get_pending_tasks(ts)
        completed_task_ids == get_completed_task_ids(ts)
    IN  SelectSeq(pending_tasks, LAMBDA t : is_ready_to_start(t, completed_task_ids))

\* ProjectManagerAgent.assign_next_task: changes tasks and communication_log,
\* returns through ret_task
assign_next_task ==
    LET ready_tasks == ReadyTasks(tasks)
    IN  IF ready_tasks = <<>>
        THEN /\ ret_task' = None
             /\ UNCHANGED <<tasks, communication_log>>
        ELSE LET next_task == PickNext(ready_tasks)
                 agent_name == IF next_task.assigned_to = "coder" THEN "Coder" ELSE "QA"
             IN  /\ tasks' = Store(tasks, mark_in_progress(next_task))
                 /\ communication_log' =
                        log_communication(communication_log, "ProjectManager", agent_name,
                                          "Assigned task", next_task.title, 0, 0)
                 /\ ret_task' = next_task.id

-----------------------------------------------------------------------------
(* Artifacts.  A file content is named; what the checks read of a content  *)
(* is which of the required markers occur in it.                           *)

FileNames == {"README.md", "index.html", "styles.css", "script.js"}

MarkersWithoutCounters(content) ==
    IF content = "HTML_CONTENT"
    THEN {"todoInput", "addBtn", "todoList", "styles.css", "script.js"}
    ELSE {}

\* the markers, among those some check looks for, that occur in a content:
\* the four literals written by CoderAgent, and the empty string
Markers(content) ==
    CASE content = "README_CONTENT" -> {"styles.css", "script.js"}
      [] content = "HTML_CONTENT" ->
            {"todoInput", "addBtn", "todoList", "totalTasks", "completedTasks",
             "styles.css", "script.js"}
      [] content = "CSS_CONTENT" ->
            {"todoInput", "addBtn", "todoList",
             ".container", ".todo-item", ".input-section", ".stats"}
      [] content = "JS_CONTENT" ->
            {"todoInput", "addBtn", "todoList", "totalTasks", "completedTasks",
             "class TodoApp", "addTodo", "toggleTodo", "deleteTodo", "updateStats"}
      [] content = "" -> {}

\* Python: marker in content
ContentContains(content, marker) == marker \in Markers(content)

\* Python: filename in self.memory.project_files
HasFile(files, filename) == filename \in DOMAIN files

PutFileKeepingOld(files, filename, content) ==
    [f \in DOMAIN files \cup {filename} |->
        IF f \in DOMAIN files THEN files[f] ELSE content]

\* self.project_files[filename] = content
PutFile(files, filename, content) ==
    [f \in DOMAIN files \cup {filename} |->
        IF f = filename THEN content ELSE files[f]]

-----------------------------------------------------------------------------
(* models/bug_report.py *)

TestResult(test_name, status, description, outcome, file_path) ==
    [test_name |-> test_name, status |-> status,
     message |-> <<description, outcome>>, file_path |-> file_path]

is_passing(result) == result.status = "pass"

is_failing(result) == result.status \in {"fail", "error"}

BugReport(id, test_name, description, severity, file_path) ==
    [id |-> id, test_name |-> test_name, description |-> description,
     severity |-> severity, file_path |-> file_path,
     fixed_at |-> "None", fix_notes |-> "None"]

is_critical(bug) == bug.severity = "critical"

-----------------------------------------------------------------------------
(* agents/qa_agent.py *)

\* one required marker of a file: pass when the content has it, else fail
MarkerResult(files, filename, marker, test_name, description) ==
    IF ContentContains(files[filename], marker)
    THEN TestResult(test_name, "pass", description, "exists", filename)
    ELSE TestResult(test_name, "fail", description, "missing", filename)

test_project_structure(files) ==
    IF HasFile(files, "README.md")
    THEN <<TestResult(Chars("readme_exists"), "pass", "README.md", "exists", "README.md")>>
    ELSE <<TestResult(Chars("readme_exists"), "fail", "README.md", "missing", "README.md")>>

required_elements ==
    << <<"todoInput", "Input field">>, <<"addBtn", "Add button">>,
       <<"todoList", "Todo list">>, <<"totalTasks", "Total tasks counter">>,
       <<"completedTasks", "Completed tasks counter">> >>

test_html_file(files) ==
    IF HasFile(files, "index.html")
    THEN [i \in 1..Len(required_elements) |->
            MarkerResult(files, "index.html", required_elements[i][1],
                Chars("html_") \o Chars(required_elements[i][1]) \o Chars("_exists"),
                required_elements[i][2])]
    ELSE <<TestResult(Chars("html_file_exists"), "fail", "index.html", "missing",
                      "index.html")>>

required_styles ==
    << <<".container", "Container styling">>, <<".todo-item", "Todo item styling">>,
       <<".input-section", "Input section styling">>, <<".stats", "Statistics styling">> >>

test_css_file(files) ==
    IF HasFile(files, "styles.css")
    THEN [i \in 1..Len(required_styles) |->
            MarkerResult(files, "styles.css", required_styles[i][1],
                Chars("css_") \o Replace(Chars(required_styles[i][1]), ".", <<>>)
                              \o Chars("_style"),
                required_styles[i][2])]
    ELSE <<TestResult(Chars("css_file_exists"), "fail", "styles.css", "missing",
                      "styles.css")>>

required_functions ==
    << <<"class TodoApp", "TodoApp class">>, <<"addTodo", "Add todo function">>,
       <<"toggleTodo", "Toggle todo function">>, <<"deleteTodo", "Delete todo function">>,
       <<"updateStats", "Update statistics function">> >>

test_js_file(files) ==
    IF HasFile(files, "script.js")
    THEN [i \in 1..Len(required_functions) |->
            MarkerResult(files, "script.js", required_functions[i][1],
                Chars("js_") \o Lower(Replace(Chars(required_functions[i][1]), " ", <<"_">>)),
                required_functions[i][2])]
    ELSE <<TestResult(Chars("js_file_exists"), "fail", "script.js", "missing",
                      "script.js")>>

\* the routing of run_tests: the results for a task title
\* a check that runs only while nothing was communicated yet
run_tests_results_first_call_only(files, title) ==
    IF communication_log # <<>> THEN <<>>
    ELSE IF TitleContains(title, "HTML") THEN test_html_file(files)
    ELSE IF TitleContains(title, "CSS") THEN test_css_file(files)
    ELSE <<>>

run_tests_results(files, title) ==
    IF TitleContains(title, "HTML") THEN test_html_file(files)
    ELSE IF TitleContains(title, "CSS") THEN test_css_file(files)
    ELSE IF TitleContains(title, "JavaScript") THEN test_js_file(files)
    ELSE IF TitleContains(title, "project structure") THEN test_project_structure(files)
    ELSE <<>>

\* the communication run_tests leaves in the log
run_tests_log(log, results) ==
    log_communication(log, "QA", "ProjectManager", "Tests completed", "",
                      Len(SelectSeq(results, is_passing)), Len(results))

run_integration_tests(files) ==
    IF \A f \in {"index.html", "styles.css", "script.js"} : HasFile(files, f)
    THEN <<TestResult(Chars("integration_all_files"), "pass", "All required files",
                      "exist", "project"),
           IF ContentContains(files["index.html"], "styles.css")
           THEN TestResult(Chars("integration_css_link"), "pass", "CSS file",
                           "properly linked", "index.html")
           ELSE TestResult(Chars("integration_css_link"), "fail", "CSS file",
                           "not linked", "index.html"),
           IF ContentContains(files["index.html"], "script.js")
           THEN TestResult(Chars("integration_js_link"), "pass", "JavaScript file",
                           "properly linked", "index.html")
           ELSE TestResult(Chars("integration_js_link"), "fail", "JavaScript file",
                           "not linked", "index.html")>>
    ELSE <<TestResult(Chars("integration_all_files"), "fail", "required files",
                      "missing", "project")>>

determine_bug_severity_any_exists(test_result) ==
    IF Contains(test_result.test_name, Chars("_exists")) THEN "critical"
    ELSE IF \E keyword \in {"add", "delete", "toggle"} :
                Contains(Lower(test_result.test_name), Chars(keyword)) THEN "high"
    ELSE "medium"

determine_bug_severity(test_result) ==
    IF Contains(test_result.test_name, Chars("file_exists")) THEN "critical"
    ELSE IF \E keyword \in {"add", "delete", "toggle"} :
                Contains(Lower(test_result.test_name), Chars(keyword)) THEN "high"
    ELSE IF Contains(Lower(test_result.test_name), Chars("css")) THEN "medium"
    ELSE "medium"

\* create_bug_report: the bug report built from a test result, with a fresh id
new_bug_report(bugs, test_result) ==
    BugReport(Len(bugs) + 1, test_result.test_name, test_result.message,
              determine_bug_severity(test_result), test_result.file_path)

add_bug_report_over_last(bugs, bug) ==
    IF bugs = <<>> THEN <<bug>> ELSE [bugs EXCEPT ![Len(bugs)] = bug]

\* self.bug_reports[bug.id] = bug
add_bug_report(bugs, bug) == Append(bugs, bug)

\* create_bug_report for each of `failed`, in order: <<bug_reports, log>> after it
RECURSIVE create_bug_reports(_, _, _)
create_bug_reports(bugs, log, failed) ==
    IF failed = <<>> THEN <<bugs, log>>
    ELSE LET bug == new_bug_report(bugs, Head(failed))
         IN  create_bug_reports(
                 add_bug_report(bugs, bug),
                 log_communication(log, "QA", "Coder", "Created bug report",
                                   bug.file_path, bug.id, 0),
                 Tail(failed))

-----------------------------------------------------------------------------
(* agents/coder_agent.py *)

\* the routing of implement_task: the file a title makes it write, "" if none
ImplementRoute(title) ==
    IF TitleContains(title, "HTML structure") THEN "index.html"
    ELSE IF TitleContains(title, "CSS styling") THEN "styles.css"
    ELSE IF TitleContains(title, "JavaScript functionality") THEN "script.js"
    ELSE IF TitleContains(title, "project structure") THEN "README.md"
    ELSE ""

\* the literal content the _create_* / _setup_* routine writes into a file
GeneratedContent(filename) ==
    CASE filename = "index.html" -> "HTML_CONTENT"
      [] filename = "styles.css" -> "CSS_CONTENT"
      [] filename = "script.js" -> "JS_CONTENT"
      [] filename = "README.md" -> "README_CONTENT"

-----------------------------------------------------------------------------
(* SpecTasks: the task operations of ProjectMemory, Task and the project   *)
(* manager, called in any order on a memory seeded through add_task.       *)

SeedPriorities == {1, 2}
SeedDependencies == {{}, {1}, {1, 2}}

ApiTaskSeeds ==
    {Task(Len(tasks) + 1, "Implement HTML structure", "coder", "pending", p, d) :
        p \in SeedPriorities, d \in SeedDependencies}

InitMemory ==
    /\ tasks = <<>>
    /\ bug_reports = <<>>
    /\ project_files = <<>>
    /\ communication_log = <<>>

InitLocals ==
    /\ iteration = 0
    /\ current_task = None
    /\ success = FALSE
    /\ test_results = <<>>
    /\ op = "init"
    /\ ret_task = None
    /\ ret_list = <<>>
    /\ bugs_before = 0
    /\ faulted = FALSE
    /\ loop_calls = [assign |-> 0, dispatch |-> 0]

InitApi == InitMemory /\ InitLocals /\ pc = "api"

ApiFrame == UNCHANGED <<bug_reports, project_files, pc, iteration, current_task,
                        success, test_results, bugs_before, faulted, loop_calls>>

ApiAddTask(t) ==
    /\ Len(tasks) < MaxTasks
    /\ tasks' = add_task(tasks, t)
    /\ op' = "add_task"
    /\ ret_task' = None /\ ret_list' = <<>>
    /\ UNCHANGED communication_log
    /\ ApiFrame

ApiGetPendingTasks ==
    /\ ret_list' = Ids(get_pending_tasks(tasks))
    /\ op' = "get_pending_tasks"
    /\ ret_task' = None
    /\ UNCHANGED <<tasks, communication_log>>
    /\ ApiFrame

ApiAssignNextTask ==
    /\ Len(communication_log) < MaxLog
    /\ assign_next_task
    /\ op' = "assign_next_task"
    /\ ret_list' = <<>>
    /\ ApiFrame

ApiUpdateTaskStatus(task_id, status) ==
    /\ tasks' = update_task_status(tasks, task_id, status, "", 0)
    /\ op' = "update_task_status"
    /\ ret_task' = None /\ ret_list' = <<>>
    /\ UNCHANGED communication_log
    /\ ApiFrame

ApiMarkInProgress(task_id) ==
    /\ HasTask(tasks, task_id)
    /\ tasks' = Store(tasks, mark_in_progress(TaskOf(tasks, task_id)))
    /\ op' = "mark_in_progress"
    /\ ret_task' = None /\ ret_list' = <<>>
    /\ UNCHANGED communication_log
    /\ ApiFrame

NextApi ==
    \/ \E t \in ApiTaskSeeds : ApiAddTask(t)
    \/ ApiGetPendingTasks
    \/ ApiAssignNextTask
    \/ \E task_id \in 1..(MaxTasks + 1), status \in TaskStatus :
          ApiUpdateTaskStatus(task_id, status)
    \/ \E task_id \in 1..MaxTasks : ApiMarkInProgress(task_id)

SpecTasks == InitApi /\ [][NextApi]_vars
-----------------------------------------------------------------------------
(* Properties of the task operations, checked under SpecTasks *)

\* the ids of the tasks of ts whose status is Completed
CompletedIdSet(ts) == {ts[i].id : i \in {j \in 1..Len(ts) : ts[j].status = "completed"}}

\* the positions in ts of the Pending tasks all of whose dependencies are Completed
ReadyPositions(ts) ==
    {i \in 1..Len(ts) : /\ ts[i].status = "pending"
                        /\ ts[i].dependencies \subseteq CompletedIdSet(ts)}

\* C1: a task returned by assign_next_task has no dependency outside the set
\* of ids of the tasks that were Completed when the call was made (the
\* unprimed state is the state at the call)
C1_AssignedTaskDependenciesCompleted ==
    [][(op' = "assign_next_task" /\ ret_task' # None)
         => /\ HasTask(tasks, ret_task')
            /\ TaskOf(tasks, ret_task').dependencies \subseteq CompletedIdSet(tasks)]_vars

\* C1 witness: a task that has a dependency has been returned
C1_Witness ==
    /\ op = "assign_next_task"
    /\ ret_task # None
    /\ TaskOf(tasks, ret_task).dependencies # {}
    /\ TaskOf(tasks, ret_task).status = "in_progress"

\* C2: assign_next_task returns the ready Pending task of least priority
\* value, the earliest inserted among equals, sets that task alone to
\* InProgress, and with no ready Pending task returns None and changes no task
C2_AssignNextSelectsAndMarks ==
    [][op' = "assign_next_task"
         => LET ready == ReadyPositions(tasks)
            IN  IF ready = {}
                THEN ret_task' = None /\ tasks' = tasks
                ELSE \E i \in ready :
                        /\ \A j \in ready :
                              \/ tasks[i].priority < tasks[j].priority
                              \/ tasks[i].priority = tasks[j].priority /\ i <= j
                        /\ ret_task' = tasks[i].id
                        /\ Len(tasks') = Len(tasks)
                        /\ tasks'[i].status = "in_progress"
                        /\ \A j \in 1..Len(tasks) :
                              j # i => tasks'[j].status = tasks[j].status]_vars

\* C2 witness: the later-inserted of two Pending tasks was returned, because
\* its priority value is smaller; the other one is still Pending
C2_Witness ==
    /\ op = "assign_next_task"
    /\ Len(tasks) = 2
    /\ ret_task = tasks[2].id
    /\ tasks[2].priority < tasks[1].priority
    /\ tasks[1].status = "pending"
    /\ tasks[1].dependencies = {}

\* C2 witness of the other case: nothing is ready although a task is Pending
C2_WitnessAbsent ==
    /\ op = "assign_next_task"
    /\ ret_task = None
    /\ \E i \in 1..Len(tasks) : tasks[i].status = "pending"

\* C3: get_pending_tasks returns exactly the Pending tasks, each once, in
\* non-decreasing priority order, equal priorities in insertion order
C3_PendingSortedStable ==
    op = "get_pending_tasks"
      => /\ Range(ret_list) = {tasks[i].id : i \in {j \in 1..Len(tasks) :
                                                      tasks[j].status = "pending"}}
         /\ \A a, b \in 1..Len(ret_list) : a # b => ret_list[a] # ret_list[b]
         /\ \A a, b \in 1..Len(ret_list) :
               a < b => LET ta == TaskOf(tasks, ret_list[a])
                            tb == TaskOf(tasks, ret_list[b])
                        IN  \/ ta.priority < tb.priority
                            \/ /\ ta.priority = tb.priority
                               /\ IndexOf(tasks, ta.id) < IndexOf(tasks, tb.id)

\* C3 witness: two Pending tasks of equal priority were returned
C3_Witness ==
    /\ op = "get_pending_tasks"
    /\ Len(ret_list) = 2
    /\ TaskOf(tasks, ret_list[1]).priority = TaskOf(tasks, ret_list[2]).priority

-----------------------------------------------------------------------------
(* memory/project_memory.py: get_project_stats *)

completed_tasks(ts) == Len(get_tasks_by_status(ts, "completed"))

failed_tasks(ts) == Len(get_tasks_by_status(ts, "failed"))

progress_percentage_counting_failed(ts) ==
    IF Len(ts) > 0
    THEN ((completed_tasks(ts) + failed_tasks(ts)) * 100) \div Len(ts)
    ELSE 0

\* progress_percentage, rounded down to a whole number: the loop and the
\* report only compare it with 100
progress_percentage(ts) ==
    IF Len(ts) > 0 THEN (completed_tasks(ts) * 100) \div Len(ts) ELSE 0

-----------------------------------------------------------------------------
(* Spec: one run of SoftwareDevTeam.  The memory is filled either by       *)
(* create_project_plan (develop_project on a new team) or task by task     *)
(* through ProjectMemory.add_task before _execute_development_loop runs.   *)

SeedTitles == {"Implement HTML structure", "CSS styling for HTML", "Write unit tests"}
RunSeedDependencies == {{}, {1}}

RunTaskSeeds ==
    {Task(Len(tasks) + 1, title, role, "pending", p, d) :
        title \in SeedTitles, role \in AgentRole,
        p \in SeedPriorities, d \in RunSeedDependencies}

\* base_tasks of _analyze_requirements_and_create_tasks
base_tasks ==
    << <<"Setup project structure", "coder", 1>>,
       <<"Implement HTML structure", "coder", 1>>,
       <<"Implement CSS styling", "coder", 2>>,
       <<"Implement JavaScript functionality", "coder", 1>>,
       <<"Write unit tests", "qa_tester", 2>> >>

\* the title of the i-th task of the default plan
DefaultPlanTitle(i) == base_tasks[i][1]

\* requirements texts passed to create_project_plan
RequirementsTexts == {"", "Create a todo list application", "Build a weather dashboard"}

analyze_requirements_by_text(requirements, n) ==
    IF requirements = "Create a todo list application"
    THEN [i \in 1..Len(base_tasks) |->
            Task(n + i, base_tasks[i][1], base_tasks[i][2], "pending", base_tasks[i][3], {})]
    ELSE <<Task(n + 1, base_tasks[1][1], base_tasks[1][2], "pending", base_tasks[1][3], {})>>

\* the tasks built from base_tasks, with fresh ids following the n ids in
\* use; the requirements text is not read
analyze_requirements_and_create_tasks(requirements, n) ==
    [i \in 1..Len(base_tasks) |->
        Task(n + i, base_tasks[i][1], base_tasks[i][2], "pending", base_tasks[i][3], {})]

RECURSIVE add_tasks(_, _)
add_tasks(ts, new) ==
    IF new = <<>> THEN ts ELSE add_tasks(add_task(ts, Head(new)), Tail(new))

Init == InitMemory /\ InitLocals /\ pc = "planning"

\* a step that is neither an assign_next_task call nor a dispatch of the loop
LocalsFrame == UNCHANGED <<ret_list, loop_calls>>

\* the loop calls assign_next_task (line 58)
CountAssign ==
    /\ loop_calls' = [loop_calls EXCEPT !.assign = @ + 1]
    /\ UNCHANGED ret_list

\* the loop reaches its dispatch (lines 63-67)
CountDispatch ==
    /\ loop_calls' = [loop_calls EXCEPT !.dispatch = @ + 1]
    /\ UNCHANGED ret_list

\* ProjectMemory.add_task on the team's memory, before the run starts
SeedTask(t) ==
    /\ pc = "planning"
    /\ Len(tasks) < MaxTasks
    /\ tasks' = add_task(tasks, t)
    /\ op' = "add_task"
    /\ UNCHANGED <<bug_reports, project_files, communication_log, pc, iteration,
                   current_task, success, test_results, ret_task, bugs_before, faulted>>
    /\ LocalsFrame

\* ProjectManagerAgent.create_project_plan: changes tasks and
\* communication_log, returns through ret_list
create_project_plan(requirements) ==
    LET new == analyze_requirements_and_create_tasks(requirements, Len(tasks))
    IN  /\ tasks' = add_tasks(tasks, new)
        /\ communication_log' =
              log_communication(communication_log, "ProjectManager", "Coder",
                                "Created tasks", "", Len(new), 0)
        /\ ret_list' = Ids(new)

\* _execute_planning_phase: create_project_plan on the new team's memory
CreateProjectPlan(requirements) ==
    /\ pc = "planning"
    /\ tasks = <<>>
    /\ create_project_plan(requirements)
    /\ op' = "create_project_plan"
    /\ pc' = "assign"
    /\ iteration' = 1
    /\ UNCHANGED <<bug_reports, project_files, current_task, success, test_results,
                   ret_task, bugs_before, faulted, loop_calls>>

\* _execute_development_loop entered on a memory filled through add_task
StartLoop ==
    /\ pc = "planning"
    /\ tasks # <<>>
    /\ op' = "start_loop"
    /\ pc' = "assign"
    /\ iteration' = 1
    /\ UNCHANGED <<tasks, bug_reports, project_files, communication_log, current_task,
                   success, test_results, ret_task, bugs_before, faulted>>
    /\ LocalsFrame

\* loop body, lines 57-61: assign_next_task, break when it returns None
AssignNext ==
    /\ pc = "assign"
    /\ assign_next_task
    /\ op' = "assign_next_task"
    /\ current_task' = ret_task'
    /\ pc' = IF ret_task' = None THEN "report" ELSE "dispatch"
    /\ bugs_before' = Len(bug_reports)
    /\ test_results' = <<>>
    /\ success' = FALSE
    /\ faulted' = FALSE
    /\ UNCHANGED <<bug_reports, project_files, iteration>>
    /\ CountAssign

\* CoderAgent.implement_task(task).  save_file stores the content in
\* project_files and then calls save_project_file, which may raise (fault)
implement_task(task, fault) ==
    LET filename == ImplementRoute(task.title)
    IN  IF filename = ""
        THEN /\ success' = FALSE
             /\ faulted' = FALSE
             /\ UNCHANGED <<tasks, project_files, communication_log>>
        ELSE /\ project_files' = PutFile(project_files, filename, GeneratedContent(filename))
             /\ faulted' = fault
             /\ IF fault
                THEN /\ tasks' = Store(tasks, mark_failed(task, "error"))
                     /\ communication_log' =
                           log_communication(communication_log, "Coder", "ProjectManager",
                                             "Failed task", task.title, 0, 0)
                     /\ success' = FALSE
                ELSE /\ tasks' = Store(tasks, mark_completed(task, "Implemented"))
                     /\ communication_log' =
                           log_communication(communication_log, "Coder", "ProjectManager",
                                             "Completed task", task.title, 0, 0)
                     /\ success' = TRUE

\* _execute_coder_task, line 82
ExecuteCoderImplement(fault) ==
    /\ pc = "dispatch"
    /\ TaskOf(tasks, current_task).assigned_to = "coder"
    /\ implement_task(TaskOf(tasks, current_task), fault)
    /\ op' = "implement_task"
    /\ pc' = IF success' THEN "coder_tests" ELSE "progress"
    /\ UNCHANGED <<bug_reports, iteration, current_task, test_results, ret_task,
                   bugs_before>>
    /\ CountDispatch

FailedTestsAll(results) == results

\* failed_tests = [t for t in test_results if t.is_failing()]
FailedTests(results) == SelectSeq(results, is_failing)

\* _execute_coder_task, lines 84-91: run_tests, then a bug report per failure
ExecuteCoderTests ==
    /\ pc = "coder_tests"
    /\ LET results == run_tests_results(project_files, TaskOf(tasks, current_task).title)
           after == create_bug_reports(bug_reports,
                                       run_tests_log(communication_log, results),
                                       FailedTests(results))
       IN  /\ test_results' = results
           /\ bug_reports' = after[1]
           /\ communication_log' = after[2]
    /\ op' = "run_tests"
    /\ pc' = "progress"
    /\ UNCHANGED <<tasks, project_files, iteration, current_task, success, ret_task,
                   bugs_before, faulted>>
    /\ LocalsFrame

ExecuteQATaskFilingBugs ==
    /\ pc = "dispatch"
    /\ TaskOf(tasks, current_task).assigned_to = "qa_tester"
    /\ LET results == run_tests_results(project_files, TaskOf(tasks, current_task).title)
           after == create_bug_reports(bug_reports,
                                       run_tests_log(communication_log, results),
                                       FailedTests(results))
       IN  /\ test_results' = results
           /\ bug_reports' = after[1]
           /\ communication_log' = after[2]
           /\ tasks' = update_task_status(tasks, current_task, "completed",
                                          "Created tests", Len(results))
    /\ op' = "execute_qa_task"
    /\ pc' = "progress"
    /\ UNCHANGED <<project_files, iteration, current_task, success,
                   ret_task, bugs_before, faulted>>
    /\ CountDispatch

\* _execute_qa_task
ExecuteQATask ==
    /\ pc = "dispatch"
    /\ TaskOf(tasks, current_task).assigned_to = "qa_tester"
    /\ LET results == run_tests_results(project_files, TaskOf(tasks, current_task).title)
       IN  /\ test_results' = results
           /\ communication_log' = run_tests_log(communication_log, results)
           /\ tasks' = update_task_status(tasks, current_task, "completed",
                                          "Created tests", Len(results))
    /\ op' = "execute_qa_task"
    /\ pc' = "progress"
    /\ UNCHANGED <<bug_reports, project_files, iteration, current_task, success,
                   ret_task, bugs_before, faulted>>
    /\ CountDispatch

\* lines 64-67 when assigned_to is neither CODER nor QA_TESTER: no branch runs
NoDispatch ==
    /\ pc = "dispatch"
    /\ TaskOf(tasks, current_task).assigned_to \notin {"coder", "qa_tester"}
    /\ op' = "no_dispatch"
    /\ pc' = "progress"
    /\ UNCHANGED <<tasks, bug_reports, project_files, communication_log, iteration,
                   current_task, success, test_results, ret_task, bugs_before, faulted>>
    /\ CountDispatch

ProgressCheckWithoutBreak ==
    /\ pc = "progress"
    /\ iteration' = iteration + 1
    /\ pc' = IF iteration' <= max_iterations THEN "assign" ELSE "report"
    /\ op' = "progress_check"
    /\ UNCHANGED <<tasks, bug_reports, project_files, communication_log, current_task,
                   success, test_results, ret_task, bugs_before, faulted>>
    /\ LocalsFrame

ProgressCheckWithoutCap ==
    /\ pc = "progress"
    /\ IF progress_percentage(tasks) >= 100
       THEN pc' = "report" /\ iteration' = iteration
       ELSE iteration' = iteration + 1 /\ pc' = "assign"
    /\ op' = "progress_check"
    /\ UNCHANGED <<tasks, bug_reports, project_files, communication_log, current_task,
                   success, test_results, ret_task, bugs_before, faulted>>
    /\ LocalsFrame

\* lines 69-78 and the loop test of line 54
ProgressCheck ==
    /\ pc = "progress"
    /\ IF progress_percentage(tasks) >= 100
       THEN pc' = "report" /\ iteration' = iteration
       ELSE /\ iteration' = iteration + 1
            /\ pc' = IF iteration' <= max_iterations THEN "assign" ELSE "report"
    /\ op' = "progress_check"
    /\ UNCHANGED <<tasks, bug_reports, project_files, communication_log, current_task,
                   success, test_results, ret_task, bugs_before, faulted>>
    /\ LocalsFrame

\* a report that re-runs the checks of every task, whatever its status
RECURSIVE report_log_all_tasks(_, _, _)
report_log_all_tasks(log, files, ts) ==
    IF ts = <<>> THEN log
    ELSE report_log_all_tasks(
            run_tests_log(log, run_tests_results(files, Head(ts).title)),
            files, Tail(ts))

\* generate_test_report: run_tests on each Completed task leaves one
\* communication each; run_integration_tests leaves none
RECURSIVE report_log(_, _, _)
report_log(log, files, ts) ==
    IF ts = <<>> THEN log
    ELSE report_log(
            IF Head(ts).status = "completed"
            THEN run_tests_log(log, run_tests_results(files, Head(ts).title))
            ELSE log,
            files, Tail(ts))

\* _generate_final_report
GenerateFinalReport ==
    /\ pc = "report"
    /\ communication_log' =
          IF completed_tasks(tasks) > 0
          THEN report_log(communication_log, project_files, tasks)
          ELSE communication_log
    /\ op' = "generate_final_report"
    /\ pc' = "done"
    /\ UNCHANGED <<tasks, bug_reports, project_files, iteration, current_task, success,
                   test_results, ret_task, bugs_before, faulted>>
    /\ LocalsFrame

Next ==
    \/ \E t \in RunTaskSeeds : SeedTask(t)
    \/ \E requirements \in RequirementsTexts : CreateProjectPlan(requirements)
    \/ StartLoop
    \/ AssignNext
    \/ \E fault \in BOOLEAN : ExecuteCoderImplement(fault)
    \/ ExecuteCoderTests
    \/ ExecuteQATask
    \/ NoDispatch
    \/ ProgressCheck
    \/ GenerateFinalReport

Spec == Init /\ [][Next]_vars
-----------------------------------------------------------------------------
(* Properties of the run, checked under Spec *)

InProgressPositions(ts) == {i \in 1..Len(ts) : ts[i].status = "in_progress"}

\* C5: during a run at most one task has status InProgress, whatever the
\* titles and roles of the tasks in memory
C5_AtMostOneInProgress == Cardinality(InProgressPositions(tasks)) <= 1

\* C6: after implement_task on a task whose title no handler pattern occurs
\* in, the task is Failed, one communication was recorded, implement_task
\* returned false and the loop is at its progress check
C6_UnroutableTaskFailed ==
    [][(pc = "dispatch" /\ op' = "implement_task"
          /\ ImplementRoute(TaskOf(tasks, current_task).title) = "")
         => /\ TaskOf(tasks', current_task).status = "failed"
            /\ Len(communication_log') = Len(communication_log) + 1
            /\ success' = FALSE
            /\ pc' = "progress"]_vars

\* C7: when save_project_file raises inside implement_task, for any of the
\* four routable kinds: the task is Failed, exactly one communication is
\* appended, implement_task returns false, no test runs and no bug is filed,
\* and the loop goes to its progress check
C7_FaultCaughtInsideImplement ==
    [][(pc = "dispatch" /\ op' = "implement_task" /\ faulted')
         => /\ ImplementRoute(TaskOf(tasks, current_task).title) # ""
            /\ TaskOf(tasks', current_task).status = "failed"
            /\ \A i \in 1..Len(tasks) :
                  tasks[i].id # current_task => tasks'[i] = tasks[i]
            /\ Len(communication_log') = Len(communication_log) + 1
            /\ SubSeq(communication_log', 1, Len(communication_log)) = communication_log
            /\ success' = FALSE
            /\ test_results' = <<>>
            /\ bug_reports' = bug_reports
            /\ pc' = "progress"]_vars

\* C7 witness: the fault hit the JavaScript task of the default plan, and the
\* loop is at its progress check with no bug filed in this iteration
C7_Witness ==
    /\ pc = "progress"
    /\ op = "implement_task"
    /\ faulted
    /\ TaskOf(tasks, current_task).title = "Implement JavaScript functionality"
    /\ TaskOf(tasks, current_task).status = "failed"
    /\ Len(bug_reports) = bugs_before

\* C8: once the loop has dispatched a Verifier-role task, the task is
\* Completed at the end of that iteration, whatever its title and whatever
\* the test results
C8_VerifierTaskCompleted ==
    (pc = "progress" /\ TaskOf(tasks, current_task).assigned_to = "qa_tester")
      => TaskOf(tasks, current_task).status = "completed"

\* C8 witness: a Verifier-role task was dispatched and its tests failed
C8_Witness ==
    /\ pc = "progress"
    /\ TaskOf(tasks, current_task).assigned_to = "qa_tester"
    /\ \E i \in 1..Len(test_results) : test_results[i].status = "fail"

\* the number of failing (fail or error) results
FailingCount(results) ==
    Cardinality({i \in 1..Len(results) : results[i].status \in {"fail", "error"}})

\* C9: at the end of an iteration in which implement_task succeeded on an
\* Implementer-role task, the bug reports filed in it are exactly one per
\* failing result of run_tests: new, distinct, open, and named after it
C9_OneBugPerFailingResult ==
    (pc = "progress" /\ success
        /\ TaskOf(tasks, current_task).assigned_to = "coder")
      => LET failing == {i \in 1..Len(test_results) :
                            test_results[i].status \in {"fail", "error"}}
             new == (bugs_before + 1)..Len(bug_reports)
         IN  /\ op = "run_tests"
             /\ Len(bug_reports) = bugs_before + FailingCount(test_results)
             /\ \A i, j \in 1..Len(bug_reports) :
                   i # j => bug_reports[i].id # bug_reports[j].id
             /\ \A k \in new : bug_reports[k].fixed_at = "None"
             /\ \A i \in failing : \E k \in new :
                   bug_reports[k].test_name = test_results[i].test_name
             /\ \A k \in new : \E i \in failing :
                   bug_reports[k].test_name = test_results[i].test_name

\* C9 witness: implement_task succeeded and run_tests returned a failing result
C9_Witness ==
    /\ pc = "progress"
    /\ success
    /\ TaskOf(tasks, current_task).assigned_to = "coder"
    /\ FailingCount(test_results) >= 1
    /\ Len(bug_reports) > bugs_before

\* C9 witness of the other case: five passing results and no bug filed
C9_WitnessPassing ==
    /\ pc = "progress"
    /\ success
    /\ Len(test_results) = 5
    /\ FailingCount(test_results) = 0

\* C11: no step of an iteration whose assigned task has the Verifier role
\* (the assign_next_task call, the dispatch with its run_tests, the progress
\* check) changes the bug reports in memory, even when run_tests returned
\* failing results
C11_VerifierIterationFilesNoBug ==
    [][(/\ pc \in {"assign", "dispatch", "coder_tests", "progress"}
        /\ current_task' # None
        /\ TaskOf(tasks', current_task').assigned_to = "qa_tester")
         => bug_reports' = bug_reports]_vars

\* C11 witness: the dispatch of a Verifier-role task is over, its run_tests
\* returned a failing result, and no bug report was added in the iteration
C11_Witness ==
    /\ pc = "progress"
    /\ op = "execute_qa_task"
    /\ TaskOf(tasks, current_task).assigned_to = "qa_tester"
    /\ FailingCount(test_results) >= 1
    /\ Len(bug_reports) = bugs_before

\* C16: a task that is Failed stays Failed, under its id and at its place, in
\* every later step of the run, and no later assign_next_task call returns it
C16_FailedStaysFailed ==
    [][\A i \in 1..Len(tasks) :
          tasks[i].status = "failed"
             => /\ Len(tasks') >= i
                /\ tasks'[i].id = tasks[i].id
                /\ tasks'[i].status = "failed"
                /\ op' = "assign_next_task" => ret_task' # tasks[i].id]_vars

\* C16 witness: with the first task Failed, a later assign_next_task call
\* returned the second task
C16_Witness ==
    /\ op = "assign_next_task"
    /\ Len(tasks) >= 2
    /\ tasks[1].status = "failed"
    /\ ret_task = tasks[2].id
    /\ tasks[2].status = "in_progress"

\* C16 witness: the run is over and the task that failed in it is still Failed
C16_WitnessDone ==
    /\ pc = "done"
    /\ \E i \in 1..Len(tasks) : tasks[i].status = "failed"


\* the steps of the run that make exactly one communicate call: an
\* assign_next_task call that returns a task, implement_task on a routable
\* title, the dispatch of a Verifier-role task, create_project_plan
OneCommunicationStep ==
    \/ op' = "assign_next_task" /\ ret_task' # None
    \/ /\ op' = "implement_task"
       /\ ImplementRoute(TaskOf(tasks, current_task).title) # ""
    \/ op' = "execute_qa_task"
    \/ op' = "create_project_plan"

\* C18: in every step of a run the communication log before the step is a
\* prefix of the log after it, so no entry is removed, changed or moved; and
\* a step that makes one communicate call adds exactly one entry, at the end
C18_LogAppendOnly ==
    [][/\ Len(communication_log') >= Len(communication_log)
       /\ SubSeq(communication_log', 1, Len(communication_log)) = communication_log
       /\ OneCommunicationStep
            => Len(communication_log') = Len(communication_log) + 1
       /\ (op' = "assign_next_task" /\ ret_task' # None)
            => LET entry == communication_log'[Len(communication_log')]
               IN  /\ entry.from = "ProjectManager"
                   /\ entry.kind = "Assigned task"
                   /\ entry.subject = TaskOf(tasks, ret_task').title]_vars

\* C18 witness: the run on the default plan is over; the log starts with the
\* plan's entry and the first assignment, and has grown past them
C18_Witness ==
    /\ pc = "done"
    /\ Len(communication_log) >= 10
    /\ communication_log[1].kind = "Created tasks"
    /\ communication_log[2].kind = "Assigned task"
    /\ communication_log[2].subject = "Setup project structure"


\* what of a task record is fixed when it is built: the record held under an
\* id is the same record as long as these are the same
TaskIdentity(task) ==
    [id |-> task.id, title |-> task.title, assigned_to |-> task.assigned_to,
     priority |-> task.priority, dependencies |-> task.dependencies]

C22_HtmlTaskFivePassing ==
    (/\ pc = "progress" /\ op = "run_tests" /\ success
     /\ TaskOf(tasks, current_task).title = "Implement HTML structure")
      => LET ids == <<"todoInput", "addBtn", "todoList", "totalTasks", "completedTasks">>
         IN  /\ Len(test_results) = 5
             /\ \A i \in 1..5 :
                   /\ test_results[i].status = "pass"
                   /\ test_results[i].test_name =
                         Chars("html_") \o Chars(ids[i]) \o Chars("_exists")
                   /\ test_results[i].file_path = "index.html"
             /\ Len(bug_reports) = bugs_before

\* C22 witness: the HTML task of the default plan was implemented and
\* checked; index.html holds the template and the task is Completed
C22_Witness ==
    /\ pc = "progress" /\ op = "run_tests" /\ success
    /\ DefaultPlanTitle(2) = TaskOf(tasks, current_task).title
    /\ TaskOf(tasks, current_task).status = "completed"
    /\ project_files["index.html"] = "HTML_CONTENT"
    /\ Len(test_results) = 5

-----------------------------------------------------------------------------
(* SpecQA: the artifact store and the QA agent's operations, called in any *)
(* order: save_file with any of the contents, the check routines, and      *)
(* create_bug_report on any failing result they returned.                  *)

AllTitles == SeedTitles \cup {base_tasks[i][1] : i \in 1..Len(base_tasks)}

InitQA == InitMemory /\ InitLocals /\ pc = "qa"

QAFrame == UNCHANGED <<tasks, pc, iteration, current_task, success, ret_task, ret_list,
                       bugs_before, faulted, loop_calls>>

\* ProjectMemory.save_file (the write to disk succeeds)
QASaveFile(filename, content) ==
    /\ project_files' = PutFile(project_files, filename, content)
    /\ op' = "save_file"
    /\ UNCHANGED <<bug_reports, communication_log, test_results>>
    /\ QAFrame

\* QAAgent.run_tests on a task with the given title
QARunTests(title) ==
    /\ Len(communication_log) < MaxLog
    /\ test_results' = run_tests_results(project_files, title)
    /\ communication_log' = run_tests_log(communication_log, test_results')
    /\ op' = "run_tests"
    /\ UNCHANGED <<bug_reports, project_files>>
    /\ QAFrame

\* QAAgent.run_integration_tests
QARunIntegrationTests ==
    /\ test_results' = run_integration_tests(project_files)
    /\ op' = "run_integration_tests"
    /\ UNCHANGED <<bug_reports, project_files, communication_log>>
    /\ QAFrame

\* QAAgent.create_bug_report on one failing result of the last check
QACreateBugReport(i) ==
    /\ Len(bug_reports) < MaxBugs
    /\ i \in 1..Len(test_results)
    /\ is_failing(test_results[i])
    /\ LET after == create_bug_reports(bug_reports, communication_log, <<test_results[i]>>)
       IN  /\ bug_reports' = after[1]
           /\ communication_log' = after[2]
    /\ op' = "create_bug_report"
    /\ UNCHANGED <<project_files, test_results>>
    /\ QAFrame

NextQA ==
    \/ \E filename \in FileNames :
          \E content \in {GeneratedContent(filename), ""} : QASaveFile(filename, content)
    \/ \E title \in AllTitles : QARunTests(title)
    \/ QARunIntegrationTests
    \/ \E i \in 1..Len(test_results) : QACreateBugReport(i)

SpecQA == InitQA /\ [][NextQA]_vars

-----------------------------------------------------------------------------
(* Properties of the QA operations, checked under SpecQA *)

\* a failure reported because the artifact itself is not in the store
ExistenceFailure(result) ==
    /\ is_failing(result)
    /\ result.message[2] = "missing"
    /\ result.message[1] \in FileNames \cup {"required files"}

\* a failure of a test whose name carries the keyword add, delete or toggle
KeywordFailure(result) ==
    /\ is_failing(result)
    /\ \E keyword \in {"add", "delete", "toggle"} :
          Contains(Lower(result.test_name), Chars(keyword))

\* the result a create_bug_report step was called on, and the bug it added
FiledFrom(result, bug) ==
    /\ bug.test_name = result.test_name
    /\ bug.description = result.message
    /\ bug.file_path = result.file_path

\* C10 as claimed: a bug report filed from a failing result has severity
\* Critical when the failure is that an artifact does not exist, High when it
\* is an add / delete / toggle keyword failure, and Medium otherwise
C10_SeverityPolicyAsClaimed ==
    [][op' = "create_bug_report"
         => \E i \in 1..Len(test_results) :
               LET result == test_results[i]
                   bug == bug_reports'[Len(bug_reports')]
               IN  /\ FiledFrom(result, bug)
                   /\ bug.severity =
                         IF ExistenceFailure(result) THEN "critical"
                         ELSE IF KeywordFailure(result) THEN "high"
                         ELSE "medium"]_vars

\* a failure reported because index.html, styles.css or script.js is not in
\* the store: the file-level failure of the HTML, CSS and JavaScript checks
CodeFileMissing(result) ==
    /\ is_failing(result)
    /\ result.message[2] = "missing"
    /\ result.message[1] \in {"index.html", "styles.css", "script.js"}

\* C10 amended: Critical when index.html, styles.css or script.js is missing;
\* High for an add / delete / toggle keyword failure; Medium otherwise, which
\* includes a missing README.md and the integration check's missing files;
\* never Low
C10_SeverityPolicy ==
    [][op' = "create_bug_report"
         => \E i \in 1..Len(test_results) :
               LET result == test_results[i]
                   bug == bug_reports'[Len(bug_reports')]
               IN  /\ FiledFrom(result, bug)
                   /\ bug.severity # "low"
                   /\ bug.severity =
                         IF CodeFileMissing(result) THEN "critical"
                         ELSE IF KeywordFailure(result) THEN "high"
                         ELSE "medium"]_vars

\* C10 witness: a High bug was filed from the failing check of the Add button
C10_Witness ==
    /\ op = "create_bug_report"
    /\ bug_reports[Len(bug_reports)].severity = "high"
    /\ bug_reports[Len(bug_reports)].file_path = "index.html"

\* C10 witness of the Medium case that the claim put under Critical
C10_WitnessReadme ==
    /\ op = "create_bug_report"
    /\ bug_reports[Len(bug_reports)].severity = "medium"
    /\ bug_reports[Len(bug_reports)].description = <<"README.md", "missing">>

-----------------------------------------------------------------------------
(* SpecStore: save_file with any of the contents, among the checks that    *)
(* read the store.                                                         *)

NextStore ==
    \/ \E filename \in FileNames :
          \E content \in {GeneratedContent(filename), ""} : QASaveFile(filename, content)
    \/ \E title \in AllTitles : QARunTests(title)
    \/ QARunIntegrationTests

SpecStore == InitQA /\ [][NextStore]_vars

\* the contents save_file is called with
AllContents == {GeneratedContent(filename) : filename \in FileNames} \cup {""}

\* C17: save_file(filename, content) leaves the store holding exactly content
\* under filename, whatever it held under that name before, with every other
\* file as it was; and the same save made again gives the same store
C17_SaveFileOverwrites ==
    [][op' = "save_file"
         => \A filename \in FileNames : \A content \in AllContents :
               QASaveFile(filename, content)
                  => /\ DOMAIN project_files' = DOMAIN project_files \cup {filename}
                     /\ project_files'[filename] = content
                     /\ \A f \in DOMAIN project_files \ {filename} :
                           project_files'[f] = project_files[f]
                     /\ PutFile(project_files', filename, content) = project_files']_vars

\* C17 witness: index.html was saved with the generated content, passed its
\* five checks, and was then saved again with the empty content, which the
\* store now holds; styles.css is as it was saved
C17_Witness ==
    /\ op = "save_file"
    /\ Len(test_results) = 5
    /\ FailingCount(test_results) = 0
    /\ test_results[1].file_path = "index.html"
    /\ DOMAIN project_files = {"index.html", "styles.css"}
    /\ project_files["index.html"] = ""
    /\ project_files["styles.css"] = "CSS_CONTENT"

\* C23: run_tests on a title routed to the HTML check returns exactly five
\* results, one per required element id, whatever the store holds, also
\* when index.html is absent (as claimed; _test_html_file returns the single
\* result html_file_exists in that case)
C23_HtmlCheckAlwaysFiveResults ==
    (op = "run_tests" /\ test_results # <<>> /\ test_results[1].file_path = "index.html")
       => Len(test_results) = Len(required_elements)

-----------------------------------------------------------------------------
(* SpecLifecycle: a run of the development loop on a memory whose tasks    *)
(* were first given any statuses through update_task_status and            *)
(* mark_in_progress.                                                       *)

LifecycleTitles == {"Implement HTML structure", "Write unit tests"}

LifecycleTaskSeeds ==
    {Task(Len(tasks) + 1, title, role, "pending", 1, d) :
        title \in LifecycleTitles, role \in AgentRole, d \in RunSeedDependencies}

\* ProjectMemory.update_task_status called on the memory before the run
SeedUpdateTaskStatus(task_id, status) ==
    /\ pc = "planning"
    /\ tasks' = update_task_status(tasks, task_id, status, "", 0)
    /\ op' = "update_task_status"
    /\ UNCHANGED <<bug_reports, project_files, communication_log, pc, iteration,
                   current_task, success, test_results, ret_task, bugs_before, faulted>>
    /\ LocalsFrame

\* Task.mark_in_progress called on a task of the memory before the run
SeedMarkInProgress(task_id) ==
    /\ pc = "planning"
    /\ HasTask(tasks, task_id)
    /\ tasks' = Store(tasks, mark_in_progress(TaskOf(tasks, task_id)))
    /\ op' = "mark_in_progress"
    /\ UNCHANGED <<bug_reports, project_files, communication_log, pc, iteration,
                   current_task, success, test_results, ret_task, bugs_before, faulted>>
    /\ LocalsFrame

NextLifecycle ==
    \/ \E t \in LifecycleTaskSeeds : SeedTask(t)
    \/ \E task_id \in 1..MaxTasks, status \in TaskStatus :
          SeedUpdateTaskStatus(task_id, status)
    \/ \E task_id \in 1..MaxTasks : SeedMarkInProgress(task_id)
    \/ StartLoop
    \/ AssignNext
    \/ \E fault \in BOOLEAN : ExecuteCoderImplement(fault)
    \/ ExecuteCoderTests
    \/ ExecuteQATask
    \/ NoDispatch
    \/ ProgressCheck
    \/ GenerateFinalReport

SpecLifecycle == Init /\ [][NextLifecycle]_vars

-----------------------------------------------------------------------------
(* Properties of the task lifecycle, checked under SpecLifecycle *)

\* the moves of a task status that the data model allows
AllowedMove(from, to) ==
    \/ from = "pending" /\ to = "in_progress"
    \/ from = "in_progress" /\ to \in {"completed", "failed", "blocked"}

\* C4 as claimed: across any sequence of operations, update_task_status and
\* the mark_* helpers included, a task's status only moves Pending ->
\* InProgress -> {Completed, Failed, Blocked}, and a Completed or Failed task
\* keeps its status
C4_StatusMonotonicAsClaimed ==
    [][\A i \in 1..Len(tasks) :
          tasks'[i].status # tasks[i].status
             => AllowedMove(tasks[i].status, tasks'[i].status)]_vars

\* C4 amended: once the development loop runs (assign_next_task,
\* implement_task, the Verifier-task dispatch), whatever statuses the tasks
\* had when it started, a task's status only moves Pending -> InProgress ->
\* {Completed, Failed}, and a Completed or Failed task keeps its status
C4_StatusMonotonicInRun ==
    [][pc # "planning"
         => /\ Len(tasks') = Len(tasks)
            /\ \A i \in 1..Len(tasks) :
                  /\ tasks'[i].id = tasks[i].id
                  /\ tasks'[i].status # tasks[i].status
                       => /\ AllowedMove(tasks[i].status, tasks'[i].status)
                          /\ tasks'[i].status # "blocked"]_vars

\* C4 witness: the run is over; one task went Pending -> InProgress ->
\* Completed in it, and a task that was Failed before the loop started is
\* still Failed
C4_Witness ==
    /\ pc = "done"
    /\ Len(tasks) = 2
    /\ \E i, j \in 1..Len(tasks) :
          /\ tasks[i].status = "completed" /\ tasks[i].completion_notes = "Implemented"
          /\ tasks[j].status = "failed" /\ tasks[j].completion_notes = "None"

\* the number of tasks of ts whose status is Completed
CompletedCount(ts) == Cardinality({i \in 1..Len(ts) : ts[i].status = "completed"})

\* C15: the progress percentage of the statistics is 0 when memory holds no
\* task, 100 when it holds a task and every task is Completed, and otherwise
\* completed / total x 100 (here to the whole percent below it), which is
\* then less than 100; whatever the statuses of the tasks
C15_ProgressPercentage ==
    LET total == Len(tasks)
        completed == CompletedCount(tasks)
        percentage == progress_percentage(tasks)
    IN  /\ total = 0 => percentage = 0
        /\ (total > 0 /\ completed = total) => percentage = 100
        /\ (total > 0 /\ completed < total)
              => /\ percentage * total <= completed * 100
                 /\ completed * 100 < (percentage + 1) * total
                 /\ percentage < 100

\* C15 witness: the loop's progress check read the statistics with one of
\* two tasks Completed and the other Failed: 50 percent, and the loop goes on
C15_Witness ==
    /\ op = "progress_check"
    /\ pc = "assign"
    /\ Len(tasks) = 2
    /\ CompletedCount(tasks) = 1
    /\ failed_tasks(tasks) = 1
    /\ progress_percentage(tasks) = 50

\* C15 witness of the 100 percent case
C15_WitnessComplete ==
    /\ op = "progress_check"
    /\ pc = "report"
    /\ Len(tasks) = 2
    /\ CompletedCount(tasks) = 2
    /\ progress_percentage(tasks) = 100

-----------------------------------------------------------------------------
(* SpecBacklog: a run of the development loop on a memory holding more     *)
(* tasks than the loop has iterations.  The tasks of a backlog are alike:  *)
(* all routable Implementer tasks (each may fault), all Verifier tasks, or *)
(* all Implementer tasks that no handler pattern routes.                   *)

MaxBacklog == 11

BacklogKinds ==
    { <<"Implement HTML structure", "coder">>,
      <<"Write unit tests", "qa_tester">>,
      <<"Write unit tests", "coder">> }

BacklogTaskSeeds ==
    {Task(Len(tasks) + 1, kind[1], kind[2], "pending", 1, {}) :
        kind \in {k \in BacklogKinds :
                    tasks # <<>> => /\ k[1] = tasks[1].title
                                    /\ k[2] = tasks[1].assigned_to}}

\* ProjectMemory.add_task on the team's memory, before the run starts
SeedBacklogTask(t) ==
    /\ pc = "planning"
    /\ Len(tasks) < MaxBacklog
    /\ tasks' = add_task(tasks, t)
    /\ op' = "add_task"
    /\ UNCHANGED <<bug_reports, project_files, communication_log, pc, iteration,
                   current_task, success, test_results, ret_task, bugs_before, faulted>>
    /\ LocalsFrame

\* one step of _execute_development_loop or _generate_final_report
LoopStep ==
    \/ AssignNext
    \/ \E fault \in BOOLEAN : ExecuteCoderImplement(fault)
    \/ ExecuteCoderTests
    \/ ExecuteQATask
    \/ ProgressCheck
    \/ GenerateFinalReport

NextBacklog ==
    \/ \E t \in BacklogTaskSeeds : SeedBacklogTask(t)
    \/ StartLoop
    \/ LoopStep

SpecBacklog == Init /\ [][NextBacklog]_vars

\* the loop is sequential code: a step that can run does run
SpecBacklogFair == SpecBacklog /\ WF_vars(LoopStep)

-----------------------------------------------------------------------------
(* Properties of the loop bound, checked under SpecBacklog(Fair) *)

\* the positions of the loop: Looping, as opposed to Planning and Reporting
LoopPositions == {"assign", "dispatch", "coder_tests", "progress"}

AllCompleted(ts) == ts # <<>> /\ \A i \in 1..Len(ts) : ts[i].status = "completed"

\* C12: whatever the tasks, the loop calls assign_next_task at most 10 times
\* and dispatches at most 10 times, its iteration counter is within 1..10
\* while it loops, a run that is looping eventually reaches the report, and
\* it leaves the loop only because assign_next_task returned None, or all
\* tasks are Completed after a dispatch, or the counter went past 10
C12_LoopBoundedAndReachesReport ==
    /\ [](loop_calls.assign <= 10 /\ loop_calls.dispatch <= 10)
    /\ [](pc \in LoopPositions => iteration \in 1..10)
    /\ [](pc \in LoopPositions => <>(pc = "report"))
    /\ [][(pc \in LoopPositions /\ pc' \notin LoopPositions)
            => /\ pc' = "report"
               /\ \/ pc = "assign" /\ ret_task' = None
                  \/ pc = "progress" /\ AllCompleted(tasks)
                  \/ pc = "progress" /\ iteration' = 11]_vars

\* C12 witness: the loop ended because the counter went past the cap, after
\* 10 assign_next_task calls and 10 dispatches, with a task still Pending
C12_Witness ==
    /\ pc = "report"
    /\ iteration = 11
    /\ loop_calls = [assign |-> 10, dispatch |-> 10]
    /\ \E i \in 1..Len(tasks) : tasks[i].status = "pending"

\* C12 witnesses of the other two ways out of the loop
C12_WitnessAbsent ==
    /\ pc = "report" /\ op = "assign_next_task" /\ ret_task = None
    /\ loop_calls.assign = loop_calls.dispatch + 1

C12_WitnessComplete ==
    /\ pc = "report" /\ op = "progress_check" /\ iteration <= 10
    /\ AllCompleted(tasks)

\* C14: the step after a dispatch goes to the report, leaving the counter as
\* it is, when the progress is 100 percent or more; otherwise it adds exactly
\* one to the counter and goes on to the next assign_next_task call when the
\* counter is at most 10, to the report when it is more; and once the run is
\* at the report, assign_next_task is not called again
C14_ProgressCheckStep ==
    [][/\ pc = "progress"
          => IF progress_percentage(tasks) >= 100
             THEN pc' = "report" /\ iteration' = iteration
             ELSE /\ iteration' = iteration + 1
                  /\ pc' = IF iteration' <= 10 THEN "assign" ELSE "report"
       /\ pc \in {"report", "done"}
          => /\ pc' \in {"report", "done"}
             /\ loop_calls' = loop_calls]_vars

\* C14 witness: the third of three tasks was dispatched in the third
\* iteration, all are Completed, and the run is at the report with three
\* assign_next_task calls made
C14_Witness ==
    /\ pc \in {"report", "done"}
    /\ Len(tasks) = 3
    /\ progress_percentage(tasks) >= 100
    /\ iteration = 3
    /\ loop_calls.assign = 3

\* C14 witnesses of the other case: the counter was incremented and the loop
\* goes on; the counter was incremented past the cap and the loop ends
C14_WitnessContinue ==
    /\ pc = "assign" /\ op = "progress_check" /\ iteration = 10
    /\ progress_percentage(tasks) < 100

C14_WitnessCap ==
    /\ pc = "report" /\ op = "progress_check" /\ iteration = 11
    /\ progress_percentage(tasks) < 100

-----------------------------------------------------------------------------
(* Properties of a run on the default plan, checked under Spec *)

\* memory holds the five tasks of create_project_plan and nothing else
DefaultPlan(ts) ==
    /\ Len(ts) = 5
    /\ \A i \in 1..Len(ts) : /\ ts[i].title = base_tasks[i][1]
                              /\ ts[i].assigned_to = base_tasks[i][2]
                              /\ ts[i].priority = base_tasks[i][3]

\* C13 as claimed: on the default plan the loop is left through "no task to
\* assign" or "progress >= 100" with the counter within the cap, and all
\* five tasks are then Completed
C13_DefaultPlanAllCompletedAsClaimed ==
    (pc = "report" /\ DefaultPlan(tasks))
      => /\ iteration <= 10
         /\ \/ op = "assign_next_task" /\ ret_task = None
            \/ op = "progress_check" /\ progress_percentage(tasks) >= 100
         /\ AllCompleted(tasks)

\* C13 amended: on the default plan the loop is left with the counter within
\* the cap and every task Completed or Failed: through "progress >= 100"
\* after the fifth dispatch with all five Completed when no implement_task
\* call faulted, and through "no task to assign" on the sixth
\* assign_next_task call, with a Failed task, when one did
C13_DefaultPlanEndsBeforeCap ==
    (pc = "report" /\ DefaultPlan(tasks))
      => /\ iteration <= 10
         /\ \A i \in 1..Len(tasks) : tasks[i].status \in {"completed", "failed"}
         /\ IF AllCompleted(tasks)
            THEN /\ op = "progress_check"
                 /\ iteration = 5
                 /\ loop_calls = [assign |-> 5, dispatch |-> 5]
            ELSE /\ op = "assign_next_task" /\ ret_task = None
                 /\ iteration = 6
                 /\ loop_calls = [assign |-> 6, dispatch |-> 5]
                 /\ \E i \in 1..Len(tasks) :
                       /\ tasks[i].status = "failed"
                       /\ tasks[i].assigned_to = "coder"

\* C13 witness: the run on the default plan left the loop at 100 percent
C13_Witness ==
    /\ pc = "report"
    /\ DefaultPlan(tasks)
    /\ AllCompleted(tasks)
    /\ op = "progress_check"

\* C13 witness of the other exit: the CSS task faulted, nothing is left to assign
C13_WitnessFailed ==
    /\ pc = "report"
    /\ DefaultPlan(tasks)
    /\ tasks[3].status = "failed"
    /\ op = "assign_next_task"

-----------------------------------------------------------------------------
(* SpecPlan: create_project_plan called, with any requirements text, on a  *)
(* memory that add_task may have filled, among get_pending_tasks and       *)
(* assign_next_task calls.                                                 *)

\* ProjectManagerAgent.create_project_plan
ApiCreateProjectPlan(requirements) ==
    /\ Len(tasks) <= MaxTasks
    /\ Len(communication_log) < MaxLog
    /\ create_project_plan(requirements)
    /\ op' = "create_project_plan"
    /\ ret_task' = None
    /\ ApiFrame

NextPlan ==
    \/ \E t \in ApiTaskSeeds : ApiAddTask(t)
    \/ \E requirements \in RequirementsTexts : ApiCreateProjectPlan(requirements)
    \/ ApiGetPendingTasks
    \/ ApiAssignNextTask

SpecPlan == InitApi /\ [][NextPlan]_vars

-----------------------------------------------------------------------------
(* Properties of create_project_plan, checked under SpecPlan *)

\* C20: create_project_plan, whatever the requirements text, adds to memory
\* after the tasks already there, and returns, exactly five new tasks, in
\* this order: "Setup project structure" (priority 1, Coder), "Implement
\* HTML structure" (1, Coder), "Implement CSS styling" (2, Coder),
\* "Implement JavaScript functionality" (1, Coder), "Write unit tests" (2,
\* QA tester); each is Pending and has no dependencies
C20_CreatePlanFiveFixedTasks ==
    [][\A requirements \in RequirementsTexts :
          ApiCreateProjectPlan(requirements)
             => LET n == Len(tasks)
                    expected ==
                      << <<"Setup project structure", 1, "coder">>,
                         <<"Implement HTML structure", 1, "coder">>,
                         <<"Implement CSS styling", 2, "coder">>,
                         <<"Implement JavaScript functionality", 1, "coder">>,
                         <<"Write unit tests", 2, "qa_tester">> >>
                IN  /\ Len(tasks') = n + 5
                    /\ SubSeq(tasks', 1, n) = tasks
                    /\ Len(ret_list') = 5
                    /\ \A i \in 1..5 :
                          LET task == tasks'[n + i]
                          IN  /\ ret_list'[i] = task.id
                              /\ ~HasTask(tasks, task.id)
                              /\ \A j \in 1..5 : j # i => tasks'[n + j].id # task.id
                              /\ task.title = expected[i][1]
                              /\ task.priority = expected[i][2]
                              /\ task.assigned_to = expected[i][3]
                              /\ task.status = "pending"
                              /\ task.dependencies = {}]_vars

\* C20 witness: the plan was created on a memory that already held two
\* tasks; it holds seven now and five ids were returned
C20_Witness ==
    /\ op = "create_project_plan"
    /\ Len(tasks) = 7
    /\ Len(ret_list) = 5
    /\ tasks[7].title = "Write unit tests"

-----------------------------------------------------------------------------
(* SpecPlanStatus: the tasks of the default plan are given statuses        *)
(* through update_task_status, and assign_next_task is called.             *)

PlanStatuses == {"completed", "failed"}

\* ProjectManagerAgent.create_project_plan on the new memory
PlanCreate(requirements) ==
    /\ tasks = <<>>
    /\ create_project_plan(requirements)
    /\ op' = "create_project_plan"
    /\ ret_task' = None
    /\ ApiFrame

\* ProjectMemory.update_task_status on a task of the plan
PlanUpdateTaskStatus(task_id, status) ==
    /\ tasks # <<>>
    /\ tasks' = update_task_status(tasks, task_id, status, "", 0)
    /\ op' = "update_task_status"
    /\ ret_task' = None /\ ret_list' = <<>>
    /\ UNCHANGED communication_log
    /\ ApiFrame

\* ProjectManagerAgent.assign_next_task after the plan was created
PlanAssignNextTask ==
    /\ tasks # <<>>
    /\ Len(communication_log) <= MaxLog
    /\ assign_next_task
    /\ op' = "assign_next_task"
    /\ ret_list' = <<>>
    /\ ApiFrame

NextPlanStatus ==
    \/ \E requirements \in RequirementsTexts : PlanCreate(requirements)
    \/ \E task_id \in 1..Len(base_tasks), status \in PlanStatuses :
          PlanUpdateTaskStatus(task_id, status)
    \/ PlanAssignNextTask

SpecPlanStatus == InitApi /\ [][NextPlanStatus]_vars

-----------------------------------------------------------------------------
(* Properties of assign_next_task on the default plan, under SpecPlanStatus *)

\* C21: when memory holds the five tasks of the default plan and all five
\* are Completed, assign_next_task returns None, changes no task and records
\* no communication
C21_AllCompletedAssignsNothing ==
    [][(op' = "assign_next_task" /\ DefaultPlan(tasks) /\ AllCompleted(tasks))
         => /\ ret_task' = None
            /\ tasks' = tasks
            /\ communication_log' = communication_log]_vars

\* C21 witness: assign_next_task was called with all five default tasks
\* Completed and returned None
C21_Witness ==
    /\ op = "assign_next_task"
    /\ ret_task = None
    /\ DefaultPlan(tasks)
    /\ AllCompleted(tasks)

\* C21 witness of the contrast: with four Completed and one Pending the
\* Pending one is returned
C21_WitnessOneLeft ==
    /\ op = "assign_next_task"
    /\ ret_task # None
    /\ DefaultPlan(tasks)
    /\ CompletedCount(tasks) = 4

-----------------------------------------------------------------------------
(* SpecBugs: bug reports filed from failing checks on an empty store and   *)
(* fixed by the coder, one at a time (fix_bug) or all critical ones        *)
(* (handle_critical_bugs), in any order.                                   *)

MaxFiled == 2
MaxBugLog == 5

\* the readings of the clock, in the order of time
ClockReadings == <<"t1", "t2", "t3", "t4", "t5", "t6", "t7", "t8", "t9", "t10">>

\* datetime.now().isoformat(): a string, never None, that is later than the
\* timestamps of all the communications logged so far
Now(log) == ClockReadings[Len(log) + 1]

\* mark_fixed without the timestamp
mark_fixed_notes_only(bug, fix_notes, now) == [bug EXCEPT !.fix_notes = fix_notes]

\* BugReport.mark_fixed
mark_fixed(bug, fix_notes, now) == [bug EXCEPT !.fixed_at = now, !.fix_notes = fix_notes]

is_open(bug) == bug.fixed_at = "None"

\* ProjectMemory.get_open_bugs
get_open_bugs(bugs) == SelectSeq(bugs, is_open)

is_open_critical(bug) == is_critical(bug) /\ is_open(bug)

\* the critical bugs that are still open
get_critical_bugs_open_only(bugs) == SelectSeq(bugs, is_open_critical)

\* ProjectMemory.get_critical_bugs
get_critical_bugs(bugs) == SelectSeq(bugs, is_critical)

\* CoderAgent.fix_bug on the bug at position i: <<bug_reports, log, result>>
fix_bug(bugs, log, i) ==
    <<[bugs EXCEPT ![i] = mark_fixed(bugs[i], "Fixed by Coder", Now(log))],
      log_communication(log, "Coder", "QA", "Fixed bug", bugs[i].test_name, 0, 0),
      TRUE>>

\* fix_bug on each of the positions in `todo`, in order: <<bug_reports, log>>
RECURSIVE fix_bugs(_, _, _)
fix_bugs(bugs, log, todo) ==
    IF todo = <<>> THEN <<bugs, log>>
    ELSE LET after == fix_bug(bugs, log, Head(todo))
         IN  fix_bugs(after[1], after[2], Tail(todo))

\* the positions of the critical bugs, in the order of bug_reports
RECURSIVE CriticalPositions(_, _)
CriticalPositions(bugs, n) ==
    IF n = 0 THEN <<>>
    ELSE LET front == CriticalPositions(bugs, n - 1)
         IN  IF is_critical(bugs[n]) THEN Append(front, n) ELSE front

BugTitles == {"Implement HTML structure", "Setup project structure"}

BugsFrame == UNCHANGED <<tasks, project_files, pc, iteration, current_task, ret_task,
                         ret_list, bugs_before, faulted, loop_calls>>

\* QAAgent.run_tests on a task with the given title
BugsRunTests(title) ==
    /\ Len(communication_log) < MaxBugLog
    /\ test_results' = run_tests_results(project_files, title)
    /\ communication_log' = run_tests_log(communication_log, test_results')
    /\ op' = "run_tests"
    /\ UNCHANGED <<bug_reports, success>>
    /\ BugsFrame

\* QAAgent.create_bug_report on one failing result of the last check
BugsCreateBugReport(i) ==
    /\ Len(bug_reports) < MaxFiled
    /\ Len(communication_log) < MaxBugLog
    /\ is_failing(test_results[i])
    /\ LET after == create_bug_reports(bug_reports, communication_log, <<test_results[i]>>)
       IN  /\ bug_reports' = after[1]
           /\ communication_log' = after[2]
    /\ op' = "create_bug_report"
    /\ UNCHANGED <<test_results, success>>
    /\ BugsFrame

\* CoderAgent.fix_bug on a bug report held in memory
FixBug(i) ==
    /\ Len(communication_log) < MaxBugLog
    /\ LET after == fix_bug(bug_reports, communication_log, i)
       IN  /\ bug_reports' = after[1]
           /\ communication_log' = after[2]
           /\ success' = after[3]
    /\ op' = "fix_bug"
    /\ UNCHANGED test_results
    /\ BugsFrame

\* SoftwareDevTeam.handle_critical_bugs
HandleCriticalBugs ==
    LET critical == CriticalPositions(bug_reports, Len(bug_reports))
    IN  /\ Len(communication_log) + Len(critical) <= MaxBugLog
        /\ LET after == fix_bugs(bug_reports, communication_log, critical)
           IN  /\ bug_reports' = after[1]
               /\ communication_log' = after[2]
        /\ success' = (critical # <<>>)
        /\ op' = "handle_critical_bugs"
        /\ UNCHANGED test_results
        /\ BugsFrame

NextBugs ==
    \/ \E title \in BugTitles : BugsRunTests(title)
    \/ \E i \in 1..Len(test_results) : BugsCreateBugReport(i)
    \/ \E i \in 1..Len(bug_reports) : FixBug(i)
    \/ HandleCriticalBugs

SpecBugs == InitQA /\ [][NextBugs]_vars

\* C24: fix_bug returns True and gives the bug a fix timestamp and the notes
\* "Fixed by Coder", so get_open_bugs no longer returns it, and no other bug
\* report changes; get_open_bugs returns exactly the bugs without a fix timestamp
C24_FixBugClosesOnlyThatBug ==
    /\ [](\A i \in 1..Len(bug_reports) :
             (\E j \in 1..Len(get_open_bugs(bug_reports)) :
                  get_open_bugs(bug_reports)[j] = bug_reports[i])
                <=> bug_reports[i].fixed_at = "None")
    /\ [][op' = "fix_bug"
            => \A i \in 1..Len(bug_reports) :
                  FixBug(i)
                     => /\ success'
                        /\ Len(bug_reports') = Len(bug_reports)
                        /\ bug_reports'[i].fixed_at # "None"
                        /\ bug_reports'[i].fix_notes = "Fixed by Coder"
                        /\ \A j \in 1..Len(get_open_bugs(bug_reports')) :
                              get_open_bugs(bug_reports')[j].id # bug_reports[i].id
                        /\ \A j \in 1..Len(bug_reports) :
                              j # i => bug_reports'[j] = bug_reports[j]]_vars

\* C24 witness: two bugs were filed, the first was fixed by fix_bug and the
\* second is still open and is the only one get_open_bugs returns
C24_Witness ==
    /\ op = "fix_bug"
    /\ success
    /\ Len(bug_reports) = 2
    /\ bug_reports[1].fixed_at # "None"
    /\ bug_reports[2].fixed_at = "None"
    /\ get_open_bugs(bug_reports) = <<bug_reports[2]>>

\* C24 witness: handle_critical_bugs fixed the critical bug and left the
\* medium one open
C24_WitnessCritical ==
    /\ op = "handle_critical_bugs"
    /\ success
    /\ Len(bug_reports) = 2
    /\ \A i \in 1..2 : is_critical(bug_reports[i]) <=> bug_reports[i].fixed_at # "None"
    /\ Len(get_open_bugs(bug_reports)) = 1

-----------------------------------------------------------------------------
(* SpecChecks: run_tests on the tasks of a memory, among saves to the      *)
(* store and bug reports filed from the results.                           *)

MaxCheckLog == 4
CheckTitles == {"Implement HTML structure", "Write unit tests"}
CheckFiles == {"index.html"}

ChecksFrame == UNCHANGED <<pc, iteration, success, ret_task, ret_list, bugs_before,
                           faulted, loop_calls>>

\* ProjectMemory.add_task of a new pending task
ChecksAddTask(title) ==
    /\ Len(tasks) < MaxTasks
    /\ tasks' = add_task(tasks, Task(Len(tasks) + 1, title, "coder", "pending", 2, {}))
    /\ op' = "add_task"
    /\ UNCHANGED <<bug_reports, project_files, communication_log, test_results,
                   current_task>>
    /\ ChecksFrame

\* ProjectMemory.save_file (the write to disk succeeds)
ChecksSaveFile(filename, content) ==
    /\ project_files' = PutFile(project_files, filename, content)
    /\ op' = "save_file"
    /\ UNCHANGED <<tasks, bug_reports, communication_log, test_results, current_task>>
    /\ ChecksFrame

\* QAAgent.run_tests(task) on a task held in memory
ChecksRunTests(task_id) ==
    /\ Len(communication_log) < MaxCheckLog
    /\ test_results' = run_tests_results(project_files, TaskOf(tasks, task_id).title)
    /\ communication_log' = run_tests_log(communication_log, test_results')
    /\ current_task' = task_id
    /\ op' = "run_tests"
    /\ UNCHANGED <<tasks, bug_reports, project_files>>
    /\ ChecksFrame

\* QAAgent.create_bug_report on one failing result of the last check
ChecksCreateBugReport(i) ==
    /\ Len(bug_reports) < MaxBugs
    /\ Len(communication_log) < MaxCheckLog
    /\ is_failing(test_results[i])
    /\ LET after == create_bug_reports(bug_reports, communication_log, <<test_results[i]>>)
       IN  /\ bug_reports' = after[1]
           /\ communication_log' = after[2]
    /\ op' = "create_bug_report"
    /\ UNCHANGED <<tasks, project_files, test_results, current_task>>
    /\ ChecksFrame

NextChecks ==
    \/ \E title \in CheckTitles : ChecksAddTask(title)
    \/ \E filename \in CheckFiles :
          \E content \in {GeneratedContent(filename), ""} : ChecksSaveFile(filename, content)
    \/ \E task_id \in 1..Len(tasks) : ChecksRunTests(task_id)
    \/ \E i \in 1..Len(test_results) : ChecksCreateBugReport(i)

SpecChecks == InitQA /\ [][NextChecks]_vars

\* the title of the task the last run_tests call was made on
CheckedTitle(ts, task_id) == TaskOf(ts, task_id).title

-----------------------------------------------------------------------------
(* The final report of a run (checked under Spec).                         *)

is_completed(task) == task.status = "completed"

\* all_test_results of generate_test_report: the results of run_tests on
\* each Completed task, in the order of memory.tasks, then the integration
\* results
RECURSIVE generate_test_report_results(_, _)
generate_test_report_results(files, ts) ==
    IF ts = <<>> THEN run_integration_tests(files)
    ELSE (IF is_completed(Head(ts)) THEN run_tests_results(files, Head(ts).title)
          ELSE <<>>)
         \o generate_test_report_results(files, Tail(ts))

\* the sum of the result counts that the log entries after position n report
RECURSIVE ReportedTotal(_, _)
ReportedTotal(log, n) ==
    IF Len(log) <= n THEN 0
    ELSE log[Len(log)].b + ReportedTotal(SubSeq(log, 1, Len(log) - 1), n)

\* C26: the final report runs run_tests once for each task whose status is
\* Completed, in the order of memory.tasks, and for no other task, then the
\* integration checks; it files no bug report and changes no task and no
\* artifact (with no Completed task the test report is not generated at all)
C26_ReportRerunsCompletedOnly ==
    [][op' = "generate_final_report"
          => LET reported == SelectSeq(tasks, is_completed)
                 n == Len(communication_log)
             IN  /\ UNCHANGED <<tasks, bug_reports, project_files>>
                 /\ Len(communication_log') = n + Len(reported)
                 /\ SubSeq(communication_log', 1, n) = communication_log
                 /\ \A k \in 1..Len(reported) :
                       communication_log'[n + k] =
                          run_tests_log(<<>>, run_tests_results(project_files,
                                                                 reported[k].title))[1]
                 /\ reported # <<>>
                       => Len(generate_test_report_results(project_files, tasks)) =
                             ReportedTotal(communication_log', n)
                                + Len(run_integration_tests(project_files))]_vars

\* C26 witness: the report was made on a memory holding a Completed task and
\* a task that is not Completed, with an open bug report; the log's last
\* entry is the one check run of the report
C26_Witness ==
    /\ pc = "done"
    /\ op = "generate_final_report"
    /\ Len(tasks) = 2
    /\ Len(SelectSeq(tasks, is_completed)) = 1
    /\ bug_reports # <<>>
    /\ communication_log[Len(communication_log)].kind = "Tests completed"

-----------------------------------------------------------------------------
(* SpecDag: a run of the development loop on a memory filled through       *)
(* add_task with coder and QA tasks whose dependencies form an acyclic     *)
(* graph over the ids held, where no save of an artifact faults.           *)

MaxDag == 3

\* coder tasks and QA tasks of higher priority, in turn
DagKinds ==
    << <<"Implement HTML structure", "coder", 2>>,
       <<"Write unit tests", "qa_tester", 1>> >>

DagKind(id) == DagKinds[((id - 1) % Len(DagKinds)) + 1]

\* dependencies on any other ids the memory may come to hold
DagTaskSeeds ==
    {Task(Len(tasks) + 1, DagKind(Len(tasks) + 1)[1], DagKind(Len(tasks) + 1)[2],
          "pending", DagKind(Len(tasks) + 1)[3], d) :
        d \in SUBSET ((1..MaxDag) \ {Len(tasks) + 1})}

\* every dependency names a task held in memory
DependenciesPresent(ts) ==
    \A i \in 1..Len(ts) : \A dep_id \in ts[i].dependencies : HasTask(ts, dep_id)

\* the dependency graph has no cycle: the tasks can be ranked so that each
\* ranks above all its dependencies
Acyclic(ts) ==
    \E rank \in [1..Len(ts) -> 1..Len(ts)] :
        \A i \in 1..Len(ts) : \A dep_id \in ts[i].dependencies :
            HasTask(ts, dep_id) => rank[IndexOf(ts, dep_id)] < rank[i]

\* ProjectMemory.add_task on the team's memory, before the run starts
SeedDagTask(t) ==
    /\ pc = "planning"
    /\ Len(tasks) < MaxDag
    /\ tasks' = add_task(tasks, t)
    /\ op' = "add_task"
    /\ UNCHANGED <<bug_reports, project_files, communication_log, pc, iteration,
                   current_task, success, test_results, ret_task, bugs_before, faulted>>
    /\ LocalsFrame

\* _execute_development_loop entered on such a memory
StartDagLoop ==
    /\ DependenciesPresent(tasks)
    /\ Acyclic(tasks)
    /\ StartLoop

\* one step of the loop or of the report, no save faulting
DagLoopStep ==
    \/ AssignNext
    \/ ExecuteCoderImplement(FALSE)
    \/ ExecuteCoderTests
    \/ ExecuteQATask
    \/ ProgressCheck
    \/ GenerateFinalReport

NextDag ==
    \/ \E t \in DagTaskSeeds : SeedDagTask(t)
    \/ StartDagLoop
    \/ DagLoopStep

SpecDag == Init /\ [][NextDag]_vars

\* the loop is sequential code: a step that can run does run
SpecDagFair == SpecDag /\ WF_vars(DagLoopStep)

\* C27: on such a memory the run comes to have every task Completed, one
\* more task in each iteration, and a task becomes InProgress only in a
\* state where all its dependencies are Completed
C27_AcyclicRunCompletesInOrder ==
    /\ [](pc \in LoopPositions => <>(pc = "report" /\ AllCompleted(tasks)))
    /\ [](pc = "progress" => /\ CompletedCount(tasks) = iteration
                             /\ iteration <= max_iterations)
    /\ [][\A i \in 1..Len(tasks) :
             (tasks[i].status # "in_progress" /\ tasks'[i].status = "in_progress")
                => \A dep_id \in tasks[i].dependencies :
                      /\ HasTask(tasks, dep_id)
                      /\ TaskOf(tasks, dep_id).status = "completed"]_vars

\* C27 witness: three tasks in a chain against both the insertion order and
\* the priorities (the first depends on the second, a QA task, which depends
\* on the third, a coder task of lower priority) are all Completed at the report
C27_Witness ==
    /\ pc = "report"
    /\ Len(tasks) = 3
    /\ tasks[1].dependencies = {2}
    /\ tasks[2].dependencies = {3}
    /\ tasks[3].dependencies = {}
    /\ tasks[2].priority < tasks[3].priority
    /\ AllCompleted(tasks)
    /\ iteration = 3

\* C27 witness: a task with two dependencies was put in progress
C27_WitnessJoin ==
    /\ op = "assign_next_task"
    /\ ret_task # None
    /\ TaskOf(tasks, ret_task).dependencies = {1, 3}
    /\ TaskOf(tasks, ret_task).status = "in_progress"

-----------------------------------------------------------------------------
(* Completion and open bugs (checked under Spec).                          *)

\* _create_project_report, line 135
project_status(ts) == IF progress_percentage(ts) >= 100 THEN "COMPLETED" ELSE "IN PROGRESS"

\* C28: a coder task is Completed by the implement_task call that succeeds,
\* before run_tests is called on it; the checks and the bug reports filed
\* for their failures change no task, so a run can end with progress 100,
\* project status COMPLETED, and open bugs
C28_CompletedBeforeChecks ==
    /\ [][(op' = "implement_task" /\ success')
             => /\ TaskOf(tasks', current_task).status = "completed"
                /\ pc' = "coder_tests"
                /\ UNCHANGED <<test_results, bug_reports>>]_vars
    /\ [][pc = "coder_tests" => (op' = "run_tests" /\ tasks' = tasks)]_vars
    /\ [][bug_reports' # bug_reports => tasks' = tasks]_vars

\* C28 witness: the run is over with every task Completed, progress 100 and
\* project status COMPLETED, while a bug filed for a failing check is open
C28_Witness ==
    /\ pc = "done"
    /\ progress_percentage(tasks) = 100
    /\ project_status(tasks) = "COMPLETED"
    /\ AllCompleted(tasks)
    /\ get_open_bugs(bug_reports) # <<>>
    /\ FailingCount(test_results) > 0

-----------------------------------------------------------------------------
(* Routing and the end of an iteration (checked under Spec).               *)

\* C29: after implement_task succeeded on a task, run_tests on the same task
\* runs the check of the file implement_task wrote: every result is about
\* that file (as claimed; implement_task routes "CSS styling for HTML" to
\* styles.css on "CSS styling", run_tests routes it to the index.html check
\* on "HTML")
C29_RoutingAgrees ==
    (pc = "progress" /\ op = "run_tests" /\ success)
       => /\ test_results # <<>>
          /\ \A i \in 1..Len(test_results) :
                test_results[i].file_path =
                   ImplementRoute(TaskOf(tasks, current_task).title)

\* C30: at the end of an iteration the task that assign_next_task returned
\* in it is Completed or Failed (as claimed; a task assigned to the project
\* manager role is dispatched to no agent, and a coder task with an unknown
\* title is left as it is, so both stay InProgress)
C30_AssignedTaskTerminalAtIterationEnd ==
    op = "progress_check"
       => TaskOf(tasks, current_task).status \in {"completed", "failed"}

-----------------------------------------------------------------------------
(* Assignments of a run (checked under Spec).                              *)

\* the number of tasks that are no longer Pending
LeftPendingCount(ts) == Cardinality({i \in 1..Len(ts) : ts[i].status # "pending"})

\* the number of assign_next_task calls of the loop that returned a task:
\* each is followed by one dispatch, which is still to come at "dispatch"
ReturnedCount == loop_calls.dispatch + (IF pc = "dispatch" THEN 1 ELSE 0)

\* C31: in a run assign_next_task only returns a task that is Pending and
\* leaves it not Pending, no task becomes Pending again, so each task is
\* returned at most once, and the tasks that have left Pending are as many
\* as the calls that returned a task
C31_EachTaskAssignedOnce ==
    /\ [](LeftPendingCount(tasks) = ReturnedCount)
    /\ [][(op' = "assign_next_task" /\ ret_task' # None)
             => /\ TaskOf(tasks, ret_task').status = "pending"
                /\ TaskOf(tasks', ret_task').status = "in_progress"
                /\ LeftPendingCount(tasks') = LeftPendingCount(tasks) + 1]_vars
    /\ [][\A i \in 1..Len(tasks) :
             tasks[i].status # "pending"
                => /\ Len(tasks') >= i
                   /\ tasks'[i].id = tasks[i].id
                   /\ tasks'[i].status # "pending"]_vars

\* C31 witness: the loop ended on an absent result after three calls, two of
\* which returned a task; both tasks have left Pending
C31_Witness ==
    /\ pc = "report"
    /\ ret_task = None
    /\ loop_calls = [assign |-> 3, dispatch |-> 2]
    /\ LeftPendingCount(tasks) = 2

\* C31 witness: a task whose dependency never completes is never returned:
\* one call returned a task, the other task is still Pending at the report
C31_WitnessBlocked ==
    /\ pc = "report"
    /\ Len(tasks) = 2
    /\ loop_calls.dispatch = 1
    /\ LeftPendingCount(tasks) = 1
    /\ \E i \in 1..2 : tasks[i].status = "pending" /\ tasks[i].dependencies # {}

-----------------------------------------------------------------------------
(* SpecStats: the statistics of a memory whose tasks get any statuses,     *)
(* whose store is saved to, and whose bug reports are filed and fixed.     *)

StatsTitle == "Implement HTML structure"
StatsFiles == {"index.html", "README.md"}
StatsStatuses == {"in_progress", "completed", "failed"}
MaxStatsLog == 3

\* the calls that communicate, and create_bug_report, are made while the
\* log and the bug reports are within the bounds
StatsLogRoom == Len(communication_log) < MaxStatsLog
StatsBugRoom == Len(bug_reports) < MaxBugs

\* ProjectMemory.get_project_stats
get_project_stats(ts, bugs, files) ==
    [total_tasks |-> Len(ts),
     completed_tasks |-> completed_tasks(ts),
     failed_tasks |-> failed_tasks(ts),
     progress_percentage |-> progress_percentage(ts),
     open_bugs |-> Len(get_open_bugs(bugs)),
     critical_bugs |-> Len(get_critical_bugs(bugs)),
     files_created |-> Cardinality(DOMAIN files)]

\* ProjectMemory.update_task_status on a task held in memory
StatsUpdateTaskStatus(task_id, status) ==
    /\ tasks' = update_task_status(tasks, task_id, status, "", 0)
    /\ op' = "update_task_status"
    /\ UNCHANGED <<bug_reports, project_files, communication_log, test_results,
                   current_task>>
    /\ ChecksFrame

NextStats ==
    \/ ChecksAddTask(StatsTitle)
    \/ \E task_id \in 1..Len(tasks), status \in StatsStatuses :
          StatsUpdateTaskStatus(task_id, status)
    \/ \E filename \in StatsFiles : ChecksSaveFile(filename, GeneratedContent(filename))
    \/ StatsLogRoom /\ \E title \in BugTitles : BugsRunTests(title)
    \/ StatsLogRoom /\ StatsBugRoom /\ \E i \in 1..Len(test_results) : BugsCreateBugReport(i)
    \/ StatsLogRoom /\ \E i \in 1..Len(bug_reports) : FixBug(i)
    \/ StatsLogRoom /\ HandleCriticalBugs

SpecStats == InitQA /\ [][NextStats]_vars

\* the statistics of the current memory
Stats == get_project_stats(tasks, bug_reports, project_files)

\* C32: the statistics satisfy completed + failed <= total, 0 <= progress
\* <= 100, critical_bugs <= open_bugs, and files_created is the number of
\* names in the store (as claimed; get_critical_bugs does not look at
\* fixed_at, so a fixed critical bug is counted as critical and not as open)
C32_StatsAsClaimed ==
    /\ Stats.completed_tasks + Stats.failed_tasks <= Stats.total_tasks
    /\ Stats.progress_percentage \in 0..100
    /\ Stats.critical_bugs <= Stats.open_bugs
    /\ Stats.files_created = Cardinality(DOMAIN project_files)

\* C32 amended: completed + failed <= total; 0 <= progress <= 100, with 100
\* exactly when there is a task and all are Completed; open_bugs counts the
\* bugs without a fix timestamp and critical_bugs every bug of severity
\* critical, fixed or not, so both are at most the number of bug reports and
\* the open critical bugs are at most either; files_created is the number of
\* distinct names saved so far: a save under a new name adds one, a save
\* under a held name and every other operation leave it as it is
C32_StatsBounds ==
    /\ [](/\ Stats.completed_tasks + Stats.failed_tasks <= Stats.total_tasks
          /\ Stats.progress_percentage \in 0..100
          /\ (Stats.progress_percentage = 100) <=> AllCompleted(tasks)
          /\ Stats.open_bugs =
                Cardinality({i \in 1..Len(bug_reports) : bug_reports[i].fixed_at = "None"})
          /\ Stats.critical_bugs =
                Cardinality({i \in 1..Len(bug_reports) : bug_reports[i].severity = "critical"})
          /\ Stats.open_bugs <= Len(bug_reports)
          /\ Stats.critical_bugs <= Len(bug_reports)
          /\ Len(get_critical_bugs_open_only(bug_reports)) <= Stats.open_bugs
          /\ Len(get_critical_bugs_open_only(bug_reports)) <= Stats.critical_bugs)
    /\ [][LET before == Stats.files_created
              after == get_project_stats(tasks', bug_reports', project_files').files_created
          IN  IF op' = "save_file"
              THEN \E filename \in StatsFiles :
                      /\ HasFile(project_files', filename)
                      /\ after = before + (IF HasFile(project_files, filename) THEN 0 ELSE 1)
                      /\ DOMAIN project_files' = DOMAIN project_files \cup {filename}
              ELSE after = before]_vars

\* C32 witness: a critical bug was fixed, so it counts as critical and not
\* as open, in a memory with a Completed and a Failed task and two files
C32_Witness ==
    /\ Stats.critical_bugs = 1
    /\ Stats.open_bugs = 0
    /\ Stats.total_tasks = 2
    /\ Stats.completed_tasks = 1
    /\ Stats.failed_tasks = 1
    /\ Stats.progress_percentage = 50
    /\ Stats.files_created = 2

-----------------------------------------------------------------------------
(* handle_critical_bugs (checked under SpecBugs).                          *)

\* C33: handle_critical_bugs leaves no critical bug open and every bug that
\* is not critical as it was, returns True exactly when a critical bug was
\* open before the call, and with no critical bug open returns False and
\* changes no bug (as claimed; the call takes its bugs from
\* get_critical_bugs, which also returns the fixed ones)
C33_HandleCriticalBugsAsClaimed ==
    [][op' = "handle_critical_bugs"
          => /\ get_critical_bugs_open_only(bug_reports') = <<>>
             /\ Len(bug_reports') = Len(bug_reports)
             /\ \A i \in 1..Len(bug_reports) :
                   ~is_critical(bug_reports[i]) => bug_reports'[i] = bug_reports[i]
             /\ success' <=> (get_critical_bugs_open_only(bug_reports) # <<>>)
             /\ get_critical_bugs_open_only(bug_reports) = <<>>
                   => bug_reports' = bug_reports]_vars

-----------------------------------------------------------------------------
(* A save that faults (checked under Spec).                                *)

\* C34: an implement_task call that fails because save_project_file raises
\* leaves project_files as it was before the call (as claimed; save_file
\* stores the content in project_files before it calls save_project_file)
C34_FaultedSaveLeavesStore ==
    [][(op' = "implement_task" /\ faulted')
          => /\ ~success'
             /\ TaskOf(tasks', current_task).status = "failed"
             /\ project_files' = project_files]_vars

====
